---- MODULE Spec2Model ----
(***************************************************************************)
(* A model of granola-tools: the Transport Client's retry wrapper and      *)
(* fetch functions, the paginated and the chunked document fetch, the      *)
(* change detection needs_sync and the Sync Engine run_sync                *)
(* (src/src/granola_tools/sync.py), and the Credential Store TokenManager  *)
(* (src/src/granola_tools/token_manager.py).                               *)
(*                                                                         *)
(* Each component has its own specification over the shared variables:     *)
(*   SpecRetry  retry_with_backoff around each decorated fetch function    *)
(*   SpecFetch  fetch_granola_documents, page by page                      *)
(*   SpecBatch  fetch_documents_batch, batch by batch                      *)
(*   SpecNeeds  needs_sync as a pure function of its two arguments         *)
(*   Spec       run_sync, one action per stage and per loop iteration      *)
(*   SpecLong   run_sync over a document list longer than the checkpoint   *)
(*              interval                                                   *)
(*   SpecLoad   one run of run_sync over a sync-state file of any shape    *)
(*   SpecRerun  two runs of run_sync in a row, the second told what the    *)
(*              first did                                                  *)
(*   SpecToken  the TokenManager and its .env store, call by call          *)
(* and the Index Builder (src/src/granola_tools/index.py) and the Document *)
(* Renderer convert_prosemirror_to_markdown:                               *)
(*   SpecIndex  build_index, entry by entry and write by write, with a     *)
(*              reader of the index file (cli.py load_index)               *)
(*   SpecRecord the index record of one artifact directory, as a pure      *)
(*              function of its files and of the configured zone           *)
(*   SpecRender convert_prosemirror_to_markdown as a pure function         *)
(*   SpecShared build_index beside a run_sync that writes the artifact     *)
(*              tree statement by statement                                *)
(*   SpecQuery  the query commands show and stats (cli.py) over the        *)
(*              index file that build_index wrote                          *)
(***************************************************************************)
EXTENDS Integers, Sequences, FiniteSets, TLC

VARIABLES
    retry,      \* the state of one call through retry_with_backoff's wrapper
    fetch,      \* the state of one call of fetch_granola_documents
    needs,      \* one call of needs_sync: its arguments and its result
    remote,     \* the service's document list, in the service's order
    tree,       \* outputDir: document directory name -> its files
    top_files,  \* the plain files run_sync writes into outputDir itself
    state_file, \* the persisted sync-state file (.granola_sync_state.json)
    run,        \* run_sync's locals and position, with the record of the run
    runs,       \* the number of runs started so far
    faults,     \* environment failures still allowed (bounds the model)
    token,      \* the TokenManager, the .env store and the clock
    batch,      \* the state of one call of fetch_documents_batch
    index,      \* build_index: the artifact root, the index file, its reader
    record,     \* one index record computed from one artifact directory
    render      \* one call of convert_prosemirror_to_markdown

vars == <<retry, fetch, needs, remote, tree, top_files, state_file, run,
          runs, faults, token, batch, index, record, render>>

\* The variables of the Sync Engine and its environment
syncVars == <<remote, tree, top_files, state_file, run, runs, faults>>

\* The variables of the Index Builder and of the Document Renderer
indexVars == <<index, record, render>>

\* The variables of the Credential Store, of the chunked batch fetch, of the
\* Index Builder and of the Document Renderer
sideVars == <<token, batch, indexVars>>

None == "None"

Min(a, b) == IF a < b THEN a ELSE b

RECURSIVE Pow(_, _)
Pow(b, e) == IF e = 0 THEN 1 ELSE b * Pow(b, e - 1)

(***************************************************************************)
(* Transport Client: the decorated functions and retry_with_backoff        *)
(***************************************************************************)

\* @retry_with_backoff(max_retries=3), and the decorator's defaults
MaxRetries == 3
BaseDelay == 1
BackoffFactor == 2

\* The functions decorated with @retry_with_backoff
Operations == {"page", "batch", "transcript", "workspaces", "lists"}

\* What one requests.post + raise_for_status ends with: a 2xx answer, an
\* HTTPError carrying the status, or a ConnectionError (no response)
Responses == {"ok", "e401", "e403", "e404", "e500", "conn"}

AuthErrors == {"e401", "e403"}

Return(v) == [kind |-> "return", val |-> v]
Raise(e) == [kind |-> "raise", val |-> e]

\* _fetch_documents_page: no handler of its own, the error reaches the wrapper
FetchDocumentsPage(r) == IF r = "ok" THEN Return("data") ELSE Raise(r)

\* _fetch_batch_page: as the page fetch
FetchBatchPage(r) == IF r = "ok" THEN Return("data") ELSE Raise(r)

\* fetch_workspaces: its own except RequestException returns None
FetchWorkspaces(r) == IF r = "ok" THEN Return("data") ELSE Return(None)

\* fetch_document_transcript: except HTTPError (404 or not) and except
\* Exception all return None
FetchDocumentTranscript(r) == IF r = "ok" THEN Return("data") ELSE Return(None)

\* fetch_document_lists: the v2 endpoint, then the v1 endpoint after any
\* failure of the first; None when both failed
FetchDocumentLists(r1, r2) ==
    IF r1 = "ok" THEN Return("data")
    ELSE IF r2 = "ok" THEN Return("data")
    ELSE Return(None)

\* The requests one call of the function sends, in order
RequestsOf(op, r1, r2) ==
    IF op = "lists" /\ r1 # "ok" THEN <<r1, r2>> ELSE <<r1>>

\* func(*args, **kwargs) of the wrapper, by decorated function
Func(op, r1, r2) ==
    CASE op = "page" -> FetchDocumentsPage(r1)
      [] op = "batch" -> FetchBatchPage(r1)
      [] op = "workspaces" -> FetchWorkspaces(r1)
      [] op = "transcript" -> FetchDocumentTranscript(r1)
      [] op = "lists" -> FetchDocumentLists(r1, r2)

\* A mutant of Delay: the same delay before every retry
DelayFixed(attempt) == BaseDelay

\* delay = base_delay * (backoff_factor ** attempt)
Delay(attempt) == BaseDelay * Pow(BackoffFactor, attempt)

\* The wrapper's locals before the first attempt, and the record of what the
\* call did: resps, the answers to the requests sent so far; caught, the
\* exceptions the wrapper caught, per attempt; sleeps, the delays slept
RetryIdle ==
    [op |-> None, status |-> "idle", attempt |-> 0, last_exception |-> None,
     val |-> None, resps |-> <<>>, caught |-> <<>>, sleeps |-> <<>>]

\* One iteration of `for attempt in range(max_retries)`; with the last
\* iteration, the `raise last_exception` that follows the loop
RetryIteration(st, r1, r2) ==
    LET out == Func(st.op, r1, r2)
        st1 == [st EXCEPT !.resps = @ \o RequestsOf(st.op, r1, r2)]
    IN  IF out.kind = "return"
        THEN [st1 EXCEPT !.status = "returned", !.val = out.val]
        ELSE LET st2 == [st1 EXCEPT !.last_exception = out.val,
                                    !.caught = Append(@, out.val)]
             IN  IF out.val \in AuthErrors
                 THEN [st2 EXCEPT !.status = "raised", !.val = out.val]
                 ELSE IF st.attempt < MaxRetries - 1
                 THEN [st2 EXCEPT !.attempt = @ + 1,
                                  !.sleeps = Append(@, Delay(st.attempt))]
                 ELSE [st2 EXCEPT !.attempt = @ + 1,
                                  !.status = "raised",
                                  !.val = st2.last_exception]

\* The whole wrapper call, the answers of its attempts given by script
RECURSIVE RetryRun(_, _)
RetryRun(st, script) ==
    IF st.status # "running" THEN st
    ELSE RetryRun(RetryIteration(st, script[st.attempt + 1], script[st.attempt + 1]),
                  script)

RetryStart(op) == [RetryIdle EXCEPT !.op = op, !.status = "running"]

(***************************************************************************)
(* Paginated fetch: fetch_granola_documents                                *)
(***************************************************************************)

\* The bounds of the remote lists and of the page sizes tried
MaxRemote == 6
MaxLimit == 3

\* The locals of fetch_granola_documents, and the record of what the call
\* did: requested, the offsets it asked for; failed, the offset of the page
\* whose request raised (-1: none); malformed, the offset of the page whose
\* 200 answer had no list under "docs" (-1: none)
FetchIdle ==
    [status |-> "idle", remote |-> <<>>, limit |-> 1, offset |-> 0,
     all_documents |-> <<>>, requested |-> <<>>, failed |-> -1,
     malformed |-> -1]

\* A 200 answer of the page request that is a JSON object but carries no
\* document list: "nokey" has no "docs" key, "notlist" has a number there
Malformed(shape) == [kind |-> "malformed", val |-> shape]

FetchStart(list, limit) ==
    [FetchIdle EXCEPT !.status = "running", !.remote = list, !.limit = limit]

\* The service's answer to {offset, limit}: that slice of the remote list
Page(list, offset, limit) ==
    SubSeq(list, offset + 1, Min(offset + limit, Len(list)))

\* A mutant of ShortPage: a page of exactly limit documents ends the fetch
ShortPageOrFull(docs, limit) == Len(docs) <= limit

\* `if len(docs) < limit: break`
ShortPage(docs, limit) == Len(docs) < limit

\* A mutant of AbortsAtOffset: the partial result is dropped at any offset
AbortsAtAnyOffset(offset) == offset >= 0

\* `if offset == 0: return None` of the except branch
AbortsAtOffset(offset) == offset = 0

\* One iteration of `while True`, out being what _fetch_documents_page
\* (retries included) returned or raised. status "none" is `return None`,
\* "returned" is `return {"docs": all_documents}`, "crashed" an exception
\* that is no RequestException and leaves the function. An answer without
\* "docs" reads as [] through result.get("docs", []) and ends the loop; a
\* number under "docs" is truthy and all_documents.extend raises TypeError
\* (a string or an object there would be spliced in element by element and
\* raise at the doc.get of run_sync's loop)
FetchIteration(st, out) ==
    LET st1 == [st EXCEPT !.requested = Append(@, st.offset)]
    IN  IF out.kind = "raise"
        THEN IF AbortsAtOffset(st.offset)
             THEN [st1 EXCEPT !.status = "none", !.failed = st.offset]
             ELSE [st1 EXCEPT !.status = "returned", !.failed = st.offset]
        ELSE IF out.kind = "malformed"
        THEN IF out.val = "nokey"
             THEN [st1 EXCEPT !.status = "returned", !.malformed = st.offset]
             ELSE [st1 EXCEPT !.status = "crashed", !.malformed = st.offset]
        ELSE IF out.val = <<>>
        THEN [st1 EXCEPT !.status = "returned"]
        ELSE LET st2 == [st1 EXCEPT !.all_documents = @ \o out.val]
             IN  IF ShortPage(out.val, st.limit)
                 THEN [st2 EXCEPT !.status = "returned"]
                 ELSE [st2 EXCEPT !.offset = @ + st.limit]

\* _fetch_documents_page(token, offset, limit) through its retry wrapper,
\* the answers to its attempts given by script
FetchDocumentsPageRetried(st, script) ==
    LET r == RetryRun(RetryStart("page"), script)
    IN  IF r.status = "returned"
        THEN Return(Page(st.remote, st.offset, st.limit))
        ELSE Raise(r.val)

\* What may go wrong with a page: its request finally fails, or its answer
\* is malformed
PageFailures == {"error", "nokey", "notlist"}

\* The whole of fetch_granola_documents; failPage is the number (from 0) of
\* the page that goes wrong, -1 for none, and how is what goes wrong with it
RECURSIVE FetchGranolaDocuments(_, _, _)
FetchGranolaDocuments(st, failPage, how) ==
    IF st.status # "running" THEN st
    ELSE FetchGranolaDocuments(
             FetchIteration(st,
                 IF Len(st.requested) = failPage
                 THEN IF how = "error" THEN Raise("e500") ELSE Malformed(how)
                 ELSE Return(Page(st.remote, st.offset, st.limit))),
             failPage, how)

(***************************************************************************)
(* Change detection: needs_sync                                            *)
(***************************************************************************)

\* An updated_at value: JSON null or a missing key (null), or a string,
\* here a sequence of digits. Python's `not v` holds of None and of ""
Null == [null |-> TRUE, s |-> <<>>]
Str(s) == [null |-> FALSE, s |-> s]
Falsy(v) == v.null \/ v.s = <<>>

\* A mutant of StrGreater: a >= b
RECURSIVE StrGreaterOrEqual(_, _)
StrGreaterOrEqual(a, b) ==
    IF a = <<>> THEN b = <<>>
    ELSE IF b = <<>> THEN TRUE
    ELSE IF Head(a) # Head(b) THEN Head(a) > Head(b)
    ELSE StrGreaterOrEqual(Tail(a), Tail(b))

\* Python's a > b on strings: the first differing character decides, and a
\* proper prefix is the smaller
RECURSIVE StrGreater(_, _)
StrGreater(a, b) ==
    IF a = <<>> THEN FALSE
    ELSE IF b = <<>> THEN TRUE
    ELSE IF Head(a) # Head(b) THEN Head(a) > Head(b)
    ELSE StrGreater(Tail(a), Tail(b))

\* A map with no key, and d[k] = v
EmptyMap == [k \in {} |-> k]
Put(f, k, v) == [x \in DOMAIN f \cup {k} |-> IF x = k THEN v ELSE f[x]]

\* {"documents": {}, "last_sync": None}; last_sync, which the code only
\* logs, is left out. A sync_state is what json.loads gave: kind "object"
\* is a JSON object with a "documents" object, "nodocs" a JSON object
\* without the key, "nonobject" any other JSON value
EmptyState == [kind |-> "object", documents |-> EmptyMap]

\* sync_state.get("documents", {})
Documents(sync_state) ==
    IF sync_state.kind = "object" THEN sync_state.documents ELSE EmptyMap

\* A document id is a positive number; 0 stands for an absent or empty id
NoId == 0

\* needs_sync(doc, sync_state)
NeedsSync(doc, sync_state) ==
    IF doc.id = NoId THEN TRUE
    ELSE IF doc.id \notin DOMAIN Documents(sync_state) THEN TRUE
    ELSE LET current_updated == doc.updated_at
             stored_updated == Documents(sync_state)[doc.id].updated_at
         IN  IF Falsy(current_updated) \/ Falsy(stored_updated) THEN TRUE
             ELSE StrGreater(current_updated.s, stored_updated.s)

(***************************************************************************)
(* Sync Engine: run_sync                                                   *)
(***************************************************************************)

\* fetch_granola_documents(token, limit=100)
PageLimit == 100

\* `if synced_count % 50 == 0`
CheckpointInterval == 50

\* The files of a document directory
RunFiles == {"document.json", "transcript.json", "metadata.json",
             "resume.md", "transcript.md"}

\* A directory just made: none of its files exists. A file is "absent",
\* "ok" (written to its end) or "partial" (opened for writing, then the
\* write raised)
EmptyDir == [f \in RunFiles |-> "absent"]

DirOf(t, id) == IF id \in DOMAIN t THEN t[id] ELSE EmptyDir

\* The sync-state file: missing, unparseable, the JSON of a SyncState, a
\* JSON value that is not an object, or a JSON object without "documents"
MissingFile == [kind |-> "missing", documents |-> EmptyMap]
CorruptFile == [kind |-> "corrupt", documents |-> EmptyMap]
NonObjectFile == [kind |-> "nonobject", documents |-> EmptyMap]
NoDocumentsFile == [kind |-> "nodocs", documents |-> EmptyMap]
JsonFile(state) ==
    [kind |-> IF state.kind = "object" THEN "json" ELSE state.kind,
     documents |-> state.documents]

\* load_sync_state: whatever json.loads makes of the file, or the empty
\* SyncState when the file is missing or json.loads raised
LoadSyncState(file) ==
    CASE file.kind = "json" -> [kind |-> "object", documents |-> file.documents]
      [] file.kind \in {"nodocs", "nonobject"} ->
            [kind |-> file.kind, documents |-> EmptyMap]
      [] OTHER -> EmptyState

\* sync_state.get("last_sync") of run_sync's line 470 raises AttributeError
\* when the loaded value is not a dict
LastSyncRaises(sync_state) == sync_state.kind = "nonobject"

\* sync_state["documents"][doc_id] = ... raises KeyError when the loaded
\* object has no "documents"
EntryRaises(sync_state) == sync_state.kind # "object"

\* save_sync_state: write_text of the whole state, any exception caught and
\* logged. how is "ok", "refused" (the open raised: the file is as it was)
\* or "truncated" (the write raised after the open emptied the file)
SaveSyncState(file, state, how) ==
    CASE how = "ok" -> JsonFile(state)
      [] how = "refused" -> file
      [] how = "truncated" -> CorruptFile

SaveOutcomes == {"ok", "refused", "truncated"}

\* title = doc.get("title", "Untitled Granola Note")
TitleOf(doc) == IF doc.title = None THEN "Untitled Granola Note" ELSE doc.title

\* A mutant of InProgress: only a negative count is skipped
InProgressNegative(doc) == doc.meeting_end_count < 0

\* `if meeting_end_count == 0` (the skip of unended meetings)
InProgress(doc) == doc.meeting_end_count = 0

\* The writes of one document's processing, in the order of the code:
\* document.json, transcript.json if a transcript came, metadata.json,
\* resume.md if the note panel is a recognized "doc", transcript.md if a
\* transcript came
Steps(e) ==
    <<"document.json">>
    \o (IF e.transcript = "data" THEN <<"transcript.json">> ELSE <<>>)
    \o <<"metadata.json">>
    \o (IF e.panel THEN <<"resume.md">> ELSE <<>>)
    \o (IF e.transcript = "data" THEN <<"transcript.md">> ELSE <<>>)

Range(q) == {q[i] : i \in DOMAIN q}

\* The steps completed before the one that raised (all, when none did)
Completed(e) ==
    LET steps == Steps(e)
    IN  IF e.failAt \in Range(steps)
        THEN {steps[i] : i \in {j \in DOMAIN steps :
                                   \A k \in 1..j : steps[k] # e.failAt}}
        ELSE Range(steps)

\* The directory after the writes of one processing
WriteFiles(dir, e) ==
    [f \in RunFiles |->
        IF f \in Completed(e) THEN "ok"
        ELSE IF f = e.failAt /\ e.partial THEN "partial"
        ELSE dir[f]]

\* A mutant of UpdateSyncState: the entry is written before the writes, so
\* whether or not one of them raises
UpdateSyncStateFirst(sync_state, doc, raised) ==
    [sync_state EXCEPT !.documents =
        Put(sync_state.documents, doc.id,
            [updated_at |-> doc.updated_at, title |-> doc.title])]

\* sync_state["documents"][doc_id] = {updated_at, title, synced_at}, the
\* last statement group of the try block: reached only when nothing raised
\* before it (synced_at, a clock reading, is left out)
UpdateSyncState(sync_state, doc, raised) ==
    IF raised THEN sync_state
    ELSE [sync_state EXCEPT !.documents =
            Put(sync_state.documents, doc.id,
                [updated_at |-> doc.updated_at, title |-> TitleOf(doc)])]

\* The workspace_name and folders of metadata.json: workspace_map and
\* document_to_lists_map are empty unless the fetch gave a response; every
\* document is taken to lie in workspace "W" and in folder "F", both named
\* by the responses that arrive
NoMetadata == [workspace_name |-> None, folders |-> <<>>]

Metadata(r) ==
    [workspace_name |-> IF r.workspaces THEN "W" ELSE None,
     folders |-> IF r.lists THEN <<"F">> ELSE <<>>]

\* What the iteration of the loop did with its document
LastNone ==
    [id |-> NoId, result |-> "none", written |-> {}, steps |-> {},
     transcript |-> "none", panel |-> FALSE, metadata |-> NoMetadata]

Last(r, doc, result, e) ==
    LET ran == result \in {"synced", "failed"}
    IN  [id |-> doc.id, result |-> result,
         written |-> IF ran THEN Completed(e) ELSE {},
         steps |-> IF ran THEN Range(Steps(e)) ELSE {},
         transcript |-> e.transcript, panel |-> e.panel,
         metadata |-> IF ran /\ "metadata.json" \in Completed(e)
                      THEN Metadata(r) ELSE NoMetadata]

\* One iteration of `for doc in documents`: r is run_sync's locals, t the
\* document directories, file the sync-state file; e is what the
\* environment does during the iteration: e.transcript what the transcript
\* fetch gets ("data", "none" for 404 or an empty answer, "error"), e.panel
\* whether the document carries a recognized note panel, e.failAt the step
\* that raises ("none", "mkdir" or a file of Steps), e.partial whether the
\* failing write left the file truncated, e.save how a due checkpoint write
\* ends
LoopIteration(r, t, file, doc, e) ==
    LET r1 == [r EXCEPT !.idx = @ + 1, !.examined = Append(@, doc.id)]
        Only(rr) == [run |-> rr, tree |-> t, state_file |-> file]
    IN  IF InProgress(doc)
        THEN Only([r1 EXCEPT !.skipped_in_progress = @ + 1,
                             !.last = Last(r, doc, "skipped_in_progress", e)])
        ELSE IF ~NeedsSync(doc, r.sync_state)
        THEN Only([r1 EXCEPT !.skipped_unchanged = @ + 1,
                             !.last = Last(r, doc, "skipped_unchanged", e)])
        ELSE IF e.failAt = "mkdir"
        \* doc_folder.mkdir stands before the try: its exception leaves run_sync
        THEN Only([r1 EXCEPT !.pc = "done", !.outcome = "crashed",
                             !.last = Last(r, doc, "crashed", e)])
        \* inside the try: a write that raises, or, all writes done, the
        \* KeyError of the entry assignment
        ELSE LET raised == e.failAt # "none" \/ EntryRaises(r.sync_state)
                 state1 == UpdateSyncState(r.sync_state, doc, raised)
                 count1 == IF raised THEN r.synced_count ELSE r.synced_count + 1
             IN  [run |->
                    [r1 EXCEPT !.sync_state = state1,
                               !.synced_count = count1,
                               !.synced_ids = IF raised THEN @ ELSE @ \cup {doc.id},
                               !.failed_ids = IF raised THEN @ \cup {doc.id} ELSE @,
                               !.calls = IF e.failAt = "document.json" THEN @
                                         ELSE @ \cup {"transcript"},
                               !.last = Last(r, doc, IF raised THEN "failed"
                                                     ELSE "synced", e)],
                  tree |-> Put(t, doc.id, WriteFiles(DirOf(t, doc.id), e)),
                  state_file |->
                    IF ~raised /\ count1 % CheckpointInterval = 0
                    THEN SaveSyncState(file, state1, e.save)
                    ELSE file]

\* run_sync's locals before a run, and the record of the run: dir_ok and
\* token_ok are what the run was given (is outputDir a directory, does
\* get_valid_token deliver a token); calls, the API functions called;
\* malformed, the shape of a malformed page answer; tree0, file0 and top0
\* the directories, the sync-state file and the top-level files as the run
\* found them
NoResponse == [kind |-> "unset", docs |-> <<>>]

\* What a run knows of the run before it (nothing, in the code: the record
\* serves the statements about two runs in a row): the list that run
\* fetched, how it ended, the documents whose processing raised and those it
\* processed, and whether the sync-state file it left is its SyncState
NoPrevious ==
    [ran |-> FALSE, outcome |-> "none", documents |-> <<>>,
     failed_ids |-> {}, synced_ids |-> {}, saved |-> FALSE]

RunIdle ==
    [pc |-> "idle", outcome |-> "none", full |-> FALSE,
     dir_ok |-> TRUE, token_ok |-> TRUE,
     sync_state |-> EmptyState,
     workspaces |-> FALSE, lists |-> FALSE,
     api_response |-> NoResponse, documents |-> <<>>, idx |-> 1,
     synced_count |-> 0, skipped_in_progress |-> 0, skipped_unchanged |-> 0,
     examined |-> <<>>, last |-> LastNone, synced_ids |-> {},
     failed_ids |-> {},
     calls |-> {}, malformed |-> "none",
     tree0 |-> EmptyMap, file0 |-> MissingFile, top0 |-> {},
     previous |-> NoPrevious]

\* A mutant of RunStart: a missing token does not end the run
RunStartWithoutToken(full, dirOk, tokenOk, t, file, top) ==
    LET r == [RunIdle EXCEPT !.full = full, !.dir_ok = dirOk,
                             !.token_ok = tokenOk,
                             !.tree0 = t, !.file0 = file, !.top0 = top]
    IN  IF ~dirOk
        THEN [r EXCEPT !.pc = "done", !.outcome = "fatal_dir"]
        ELSE [r EXCEPT !.pc = "meta",
                       !.sync_state = IF full \/ file.kind # "json"
                                      THEN EmptyState ELSE LoadSyncState(file)]

\* A mutant of RunStart: a full sync loads the persisted SyncState too
RunStartKeepsState(full, dirOk, tokenOk, t, file, top) ==
    LET r == [RunIdle EXCEPT !.full = full, !.dir_ok = dirOk,
                             !.token_ok = tokenOk,
                             !.tree0 = t, !.file0 = file, !.top0 = top]
    IN  IF ~dirOk
        THEN [r EXCEPT !.pc = "done", !.outcome = "fatal_dir"]
        ELSE IF ~tokenOk
        THEN [r EXCEPT !.pc = "done", !.outcome = "fatal_token"]
        ELSE [r EXCEPT !.pc = "meta",
                       !.sync_state = IF file.kind # "json"
                                      THEN EmptyState ELSE LoadSyncState(file)]

\* run_sync up to the token: the output directory check, the load of the
\* SyncState (skipped by a full sync) with the look at its last_sync, and
\* get_valid_token
RunStart(full, dirOk, tokenOk, t, file, top) ==
    LET r == [RunIdle EXCEPT !.full = full, !.dir_ok = dirOk,
                             !.token_ok = tokenOk,
                             !.tree0 = t, !.file0 = file, !.top0 = top]
        loaded == IF full THEN EmptyState ELSE LoadSyncState(file)
    IN  IF ~dirOk
        THEN [r EXCEPT !.pc = "done", !.outcome = "fatal_dir"]
        ELSE IF ~full /\ LastSyncRaises(loaded)
        THEN [r EXCEPT !.pc = "done", !.outcome = "crashed"]
        ELSE LET r1 == [r EXCEPT !.sync_state = loaded]
             IN  IF ~tokenOk
                 THEN [r1 EXCEPT !.pc = "done", !.outcome = "fatal_token"]
                 ELSE [r1 EXCEPT !.pc = "meta"]

\* A mutant of RunMetadata: a failed workspace or folder fetch ends the run
RunMetadataStrict(r, ws, ls) ==
    LET r1 == [r EXCEPT !.workspaces = ws, !.lists = ls,
                        !.calls = @ \cup {"workspaces", "lists"}]
    IN  IF ws /\ ls THEN [r1 EXCEPT !.pc = "docs"]
        ELSE [r1 EXCEPT !.pc = "done", !.outcome = "fatal_meta"]

\* fetch_workspaces and fetch_document_lists with the maps built from them:
\* ws and ls tell whether the response is there (`if workspaces_response`,
\* `if document_lists_response`); None only costs the names
RunMetadata(r, ws, ls) ==
    [r EXCEPT !.pc = "docs", !.workspaces = ws, !.lists = ls,
              !.calls = @ \cup {"workspaces", "lists"}]

\* validate_documents_response raises APIResponseError unless the response
\* is a dict with a list under "docs"
ValidateRaises(api_response) == api_response.kind # "docs"

\* `if not api_response`: None is falsy, {"docs": [...]} is not
ResponseEmpty(api_response) == api_response.kind = "none"

\* A mutant of NoDocuments: an empty list goes on to the loop and the save
NoDocumentsNever(documents) == FALSE

\* `if not documents` after validate_documents_response
NoDocuments(documents) == documents = <<>>

\* From the document fetch to the loop: fetch_granola_documents with its
\* default limit, then the early returns. What fetch_granola_documents
\* returns is None or {"docs": all_documents}; an exception that leaves it
\* leaves run_sync
RunDocuments(r, list, failPage, how) ==
    LET res == FetchGranolaDocuments(FetchStart(list, PageLimit), failPage, how)
        api == IF res.status = "none"
               THEN [kind |-> "none", docs |-> <<>>]
               ELSE [kind |-> "docs", docs |-> res.all_documents]
        r0 == [r EXCEPT !.calls = @ \cup {"documents"},
                        !.malformed = IF res.malformed >= 0 THEN how ELSE "none"]
        r1 == [r0 EXCEPT !.api_response = api]
    IN  IF res.status = "crashed"
        THEN [r0 EXCEPT !.pc = "done", !.outcome = "crashed"]
        ELSE IF ResponseEmpty(api)
        THEN [r1 EXCEPT !.pc = "done", !.outcome = "fatal_fetch"]
        ELSE IF ValidateRaises(api)
        THEN [r1 EXCEPT !.pc = "done", !.outcome = "fatal_format"]
        ELSE IF NoDocuments(api.docs)
        THEN [r1 EXCEPT !.pc = "done", !.outcome = "fatal_empty"]
        ELSE [r1 EXCEPT !.pc = "loop", !.documents = api.docs]

(***************************************************************************)
(* The environment of the Sync Engine                                      *)
(***************************************************************************)

\* Bounds: the documents of a remote list, the runs, the failures
MaxDocs == 2
MaxRuns == 2
MaxFaults == 1
LongDocs == 51

RunStamps == {Null, Str(<<1>>), Str(<<2>>)}

DocsWithId(i) ==
    {[id |-> i, updated_at |-> u, title |-> ti, meeting_end_count |-> m] :
        u \in RunStamps, ti \in {"T"}, m \in {0, 1}}

\* The remote lists: documents with ids 1..n, any content
RemoteDocLists ==
    UNION {{q \in [1..n -> UNION {DocsWithId(i) : i \in 1..n}] :
               \A i \in 1..n : q[i].id = i} : n \in 0..MaxDocs}

\* The later versions of a document: its meeting concluded, or its
\* updated_at advanced
Newer(doc) ==
    {d \in DocsWithId(doc.id) :
        /\ d # doc
        /\ d.meeting_end_count >= doc.meeting_end_count
        /\ \/ d.updated_at = doc.updated_at
           \/ /\ ~d.updated_at.null
              /\ \/ doc.updated_at.null
                 \/ StrGreater(d.updated_at.s, doc.updated_at.s)}

\* What the service may answer in the next run: the same list, or the list
\* with one document in a later version
Evolutions(list) ==
    {list} \cup UNION {{[list EXCEPT ![i] = d] : d \in Newer(list[i])} :
                        i \in DOMAIN list}

\* A long list of concluded documents, all alike
LongList ==
    [i \in 1..LongDocs |->
        [id |-> i, updated_at |-> Str(<<1>>), title |-> "T",
         meeting_end_count |-> 1]]

Bit(b) == IF b THEN 1 ELSE 0

Envs ==
    [transcript : {"data", "none", "error"}, panel : BOOLEAN,
     failAt : {"none", "mkdir"} \cup RunFiles, partial : BOOLEAN,
     save : SaveOutcomes]

QuietEnv ==
    [transcript |-> "none", panel |-> FALSE, failAt |-> "none",
     partial |-> FALSE, save |-> "ok"]

EnvCost(e) ==
    Bit(e.transcript = "error") + Bit(e.failAt # "none") + Bit(e.save # "ok")

\* The environments that differ in what the iteration meets: no choice for a
\* document that is skipped, a failing step that the iteration has, a
\* checkpoint outcome only when a checkpoint is due
EnvFits(e, r, doc) ==
    /\ EnvCost(e) <= faults
    /\ (InProgress(doc) \/ ~NeedsSync(doc, r.sync_state)) => e = QuietEnv
    /\ e.failAt \in {"none", "mkdir"} \cup Range(Steps(e))
    /\ e.partial => e.failAt \in RunFiles
    /\ e.save # "ok" =>
          e.failAt = "none" /\ (r.synced_count + 1) % CheckpointInterval = 0

(***************************************************************************)
(* Credential Store: TokenManager (token_manager.py)                       *)
(***************************************************************************)

\* expires_in = result.get("expires_in", 3600), in seconds
DefaultExpiresIn == 3600

\* buffer = timedelta(minutes=5), in seconds
ExpiryBuffer == 300

\* A time or a number of seconds that is not there (token_expiry None, no
\* "expires_in" in the response); those that are there are not negative
Unset == -1

\* The TokenState in memory. A value that is unset, null or the empty string
\* is None: the code tells them apart nowhere (`if not self.refresh_token`,
\* `if new_refresh_token`, `self.refresh_token or ""`, `if expiry_str`)
NoTokenState ==
    [access_token |-> None, refresh_token |-> None, client_id |-> None,
     token_expiry |-> Unset]

\* TokenManager.__init__: the four values of the environment, which
\* load_dotenv filled from the .env file
TokenManagerInit(env) ==
    [access_token |-> env.access_token, refresh_token |-> env.refresh_token,
     client_id |-> env.client_id, token_expiry |-> env.token_expiry]

\* _save_env: set_key of the refresh token, of the access token and of the
\* expiry, one after the other, any exception caught and logged. failAt is
\* the number of the set_key that raises (a failing mkdir of the parent
\* counts as the first), 0 when none does; a process killed between two
\* set_key calls leaves the same files
SaveEnv(env, tm, failAt) ==
    LET done(k) == failAt = 0 \/ failAt > k
    IN  [env EXCEPT
            !.refresh_token = IF done(1) THEN tm.refresh_token ELSE @,
            !.access_token = IF done(2) THEN tm.access_token ELSE @,
            !.token_expiry = IF done(3) THEN tm.token_expiry ELSE @]

SaveEnvFailures == 0..3

\* is_token_expired
IsTokenExpired(tm, now) ==
    \/ tm.access_token = None
    \/ tm.token_expiry = Unset
    \/ now >= tm.token_expiry - ExpiryBuffer

\* A mutant of MissingCredentials: only the refresh token is looked at
MissingRefreshToken(tm) == tm.refresh_token = None

\* `if not self.refresh_token` and `if not self.client_id`, each with its
\* `return False`
MissingCredentials(tm) == tm.refresh_token = None \/ tm.client_id = None

\* A mutant of RotatedRefreshToken: the response's value is always stored
RotatedAlways(old, new) == new

\* `if new_refresh_token: self.refresh_token = new_refresh_token`
RotatedRefreshToken(old, new) == IF new # None THEN new ELSE old

\* What the token endpoint answers: an error (an HTTP error status or no
\* response: a RequestException), or the tokens
TokenError ==
    [kind |-> "error", access_token |-> None, refresh_token |-> None,
     expires_in |-> Unset]

\* refresh_access_token: tm is the TokenState, env the .env store, now the
\* clock, resp the endpoint's answer if it is asked, failAt what _save_env
\* meets. sent counts the requests to the endpoint
RefreshAccessToken(tm, env, now, resp, failAt) ==
    IF MissingCredentials(tm)
    THEN [ok |-> FALSE, sent |-> 0, tm |-> tm, env |-> env]
    ELSE IF resp.kind # "ok"
    THEN [ok |-> FALSE, sent |-> 1, tm |-> tm, env |-> env]
    ELSE LET tm1 == [tm EXCEPT
                        !.access_token = resp.access_token,
                        !.refresh_token =
                            RotatedRefreshToken(tm.refresh_token,
                                                resp.refresh_token),
                        !.token_expiry =
                            now + (IF resp.expires_in = Unset
                                   THEN DefaultExpiresIn
                                   ELSE resp.expires_in)]
         IN  [ok |-> TRUE, sent |-> 1, tm |-> tm1,
              env |-> SaveEnv(env, tm1, failAt)]

\* A mutant of GetValidToken: a cached token that has not expired is
\* returned without a refresh
GetValidTokenCached(tm, env, now, resp, failAt) ==
    IF ~IsTokenExpired(tm, now)
    THEN [ok |-> TRUE, sent |-> 0, tm |-> tm, env |-> env,
          returned |-> tm.access_token]
    ELSE LET r == RefreshAccessToken(tm, env, now, resp, failAt)
         IN  [ok |-> r.ok, sent |-> r.sent, tm |-> r.tm, env |-> r.env,
              returned |-> IF r.ok THEN r.tm.access_token ELSE None]

\* get_valid_token: always a refresh, then the access token or None
GetValidToken(tm, env, now, resp, failAt) ==
    LET r == RefreshAccessToken(tm, env, now, resp, failAt)
    IN  [ok |-> r.ok, sent |-> r.sent, tm |-> r.tm, env |-> r.env,
         returned |-> IF r.ok THEN r.tm.access_token ELSE None]

\* The record of the last call on the TokenManager
NoTokenCall ==
    [op |-> "none", ok |-> FALSE, sent |-> 0, returned |-> None,
     before |-> NoTokenState, env_before |-> NoTokenState,
     resp |-> TokenError, failAt |-> 0]

\* No process running: no TokenManager, an empty .env
TokenIdle ==
    [pc |-> "idle", tm |-> NoTokenState, env |-> NoTokenState, now |-> 0,
     calls |-> 0, processes |-> 0, last |-> NoTokenCall]

(***************************************************************************)
(* Chunked batch fetch: fetch_documents_batch                              *)
(***************************************************************************)

\* The locals of fetch_documents_batch, and the record of what the call
\* did: chunks, the batches it asked for; failed, the numbers (from 1) of
\* the batches whose request finally raised
BatchIdle ==
    [status |-> "idle", document_ids |-> <<>>, batch_size |-> 1, i |-> 0,
     all_documents |-> <<>>, chunks |-> <<>>, failed |-> {}]

\* The call, up to the first test of `for i in range(0, len(document_ids),
\* batch_size)`
BatchStart(document_ids, batch_size) ==
    [BatchIdle EXCEPT !.status = IF document_ids = <<>> THEN "returned"
                                 ELSE "running",
                      !.document_ids = document_ids,
                      !.batch_size = batch_size]

\* batch = document_ids[i:i + batch_size]
BatchOf(document_ids, i, batch_size) ==
    SubSeq(document_ids, i + 1, Min(i + batch_size, Len(document_ids)))

\* A mutant of BatchIteration: a failed batch ends the loop
BatchIterationAborting(st, out) ==
    LET st1 == [st EXCEPT !.chunks = Append(@, BatchOf(st.document_ids, st.i,
                                                       st.batch_size)),
                          !.i = @ + st.batch_size]
        st2 == IF out.kind = "raise"
               THEN [st1 EXCEPT !.failed = @ \cup {Len(st1.chunks)},
                                !.status = "returned"]
               ELSE [st1 EXCEPT !.all_documents = @ \o out.val]
    IN  IF st2.i >= Len(st.document_ids)
        THEN [st2 EXCEPT !.status = "returned"]
        ELSE st2

\* One iteration of the for loop, out being what _fetch_batch_page (retries
\* included) returned or raised; a RequestException is logged and the loop
\* continues. After the last batch, `return all_documents`
BatchIteration(st, out) ==
    LET st1 == [st EXCEPT !.chunks = Append(@, BatchOf(st.document_ids, st.i,
                                                       st.batch_size)),
                          !.i = @ + st.batch_size]
        st2 == IF out.kind = "raise"
               THEN [st1 EXCEPT !.failed = @ \cup {Len(st1.chunks)}]
               ELSE [st1 EXCEPT !.all_documents = @ \o out.val]
    IN  IF st2.i >= Len(st.document_ids)
        THEN [st2 EXCEPT !.status = "returned"]
        ELSE st2

\* _fetch_batch_page(token, batch) through its retry wrapper, the answers to
\* its attempts given by script; the service answers a batch of ids with
\* the documents of these ids, in their order
FetchBatchPageRetried(st, script) ==
    LET r == RetryRun(RetryStart("batch"), script)
    IN  IF r.status = "returned"
        THEN Return(BatchOf(st.document_ids, st.i, st.batch_size))
        ELSE Raise(r.val)

(***************************************************************************)
(* Index Builder: strings, JSON values and directory names                 *)
(***************************************************************************)

\* A string is the sequence of its character codes; Ord gives the code of
\* the characters the model's names are written with
Ord(c) ==
    CASE c = "\n" -> 10 [] c = " " -> 32 [] c = "#" -> 35 [] c = "-" -> 45
      [] c = "." -> 46 [] c = "1" -> 49 [] c = "2" -> 50 [] c = ":" -> 58
      [] c = "_" -> 95 [] c = "a" -> 97 [] c = "c" -> 99 [] c = "d" -> 100
      [] c = "e" -> 101 [] c = "g" -> 103 [] c = "h" -> 104 [] c = "i" -> 105
      [] c = "j" -> 106 [] c = "l" -> 108 [] c = "n" -> 110 [] c = "o" -> 111
      [] c = "r" -> 114 [] c = "s" -> 115 [] c = "t" -> 116 [] c = "u" -> 117
      [] c = "y" -> 121 [] c = "{" -> 123 [] c = "}" -> 125

Chars(q) == [i \in 1..Len(q) |-> Ord(q[i])]

Rep(n, c) == [i \in 1..n |-> Ord(c)]

\* Python's order of two strings: by the first differing character, a proper
\* prefix first
RECURSIVE StrLess(_, _)
StrLess(a, b) ==
    IF b = <<>> THEN FALSE
    ELSE IF a = <<>> THEN TRUE
    ELSE IF Head(a) # Head(b) THEN Head(a) < Head(b)
    ELSE StrLess(Tail(a), Tail(b))

\* s[:n]
Prefix(s, n) == SubSeq(s, 1, Min(n, Len(s)))

\* A JSON value as the code looks at it: its type, the string it is (s) or
\* the number it is (n; the length for a list or an object, 1 for true)
Missing == [t |-> "missing", s |-> <<>>, n |-> 0]
JNull == [t |-> "null", s |-> <<>>, n |-> 0]
JStr(s) == [t |-> "str", s |-> s, n |-> 0]
JNum(n) == [t |-> "num", s |-> <<>>, n |-> n]
JBool(b) == [t |-> "bool", s |-> <<>>, n |-> IF b THEN 1 ELSE 0]
JList(n) == [t |-> "list", s |-> <<>>, n |-> n]
JObj(n) == [t |-> "obj", s |-> <<>>, n |-> n]

\* dict.get(key): None for a key that is missing
Get(v) == IF v.t = "missing" THEN JNull ELSE v

\* `if val:` for a JSON value
Truthy(v) ==
    CASE v.t = "str" -> v.s # <<>>
      [] v.t \in {"num", "bool", "list", "obj"} -> v.n # 0
      [] OTHER -> FALSE

\* str.replace(pat, ""): every occurrence of pat removed, left to right
RECURSIVE RemoveAll(_, _)
RemoveAll(s, pat) ==
    IF Len(s) < Len(pat) THEN s
    ELSE IF SubSeq(s, 1, Len(pat)) = pat
    THEN RemoveAll(SubSeq(s, Len(pat) + 1, Len(s)), pat)
    ELSE <<Head(s)>> \o RemoveAll(Tail(s), pat)

\* str.strip("{}"): braces removed from both ends
RECURSIVE StripBraces(_)
StripBraces(s) ==
    IF s = <<>> THEN s
    ELSE IF Head(s) \in {Ord("{"), Ord("}")} THEN StripBraces(Tail(s))
    ELSE IF s[Len(s)] \in {Ord("{"), Ord("}")}
    THEN StripBraces(SubSeq(s, 1, Len(s) - 1))
    ELSE s

\* 0-9, A-F, a-f
HexDigits == (48..57) \cup (65..70) \cup (97..102)

\* int(hex, 16) succeeds; the names of the model carry no sign, blank,
\* underscore or 0x prefix
IntBase16Parses(s) == \A i \in 1..Len(s) : s[i] \in HexDigits

\* uuid.UUID(name) succeeds: the urn: and uuid: prefixes, the braces and the
\* hyphens are removed and 32 hexadecimal digits are left
UuidParses(name) ==
    LET h1 == RemoveAll(RemoveAll(name, Chars(<<"u", "r", "n", ":">>)),
                        Chars(<<"u", "u", "i", "d", ":">>))
        h2 == RemoveAll(StripBraces(h1), <<Ord("-")>>)
    IN  Len(h2) = 32 /\ IntBase16Parses(h2)

\* is_uuid_folder(name)
IsUuidFolder(name) == UuidParses(name)

(***************************************************************************)
(* Index Builder: timestamps and the local zone                            *)
(***************************************************************************)

\* A timestamp text is the sequence of its fields: year, month, day, hour,
\* minute, second and the code of its zone suffix ("" for none, "Z",
\* "+00:00", "+01:00", "-05:00"); the timestamps of the model lie in
\* December 2023 and January 2024
ZoneCode(z) ==
    CASE z = "" -> 0 [] z = "Z" -> 90 [] z = "+00:00" -> 43
      [] z = "+01:00" -> 44 [] z = "-05:00" -> 40

Stamp(d, h, mi, sec, z) == <<2024, 1, d, h, mi, sec, ZoneCode(z)>>

\* str.replace("Z", "+00:00")
ReplaceZ(s) ==
    IF Len(s) = 7 /\ s[7] = ZoneCode("Z")
    THEN [s EXCEPT ![7] = ZoneCode("+00:00")] ELSE s

\* The offset from UTC, in seconds, that a zone suffix stands for
SuffixOffset(code) ==
    CASE code = ZoneCode("+01:00") -> 3600
      [] code = ZoneCode("-05:00") -> -18000
      [] OTHER -> 0

\* The days of the model's two months counted from 2023-12-31 (day 0), and
\* back
DayIndex(y, mo, d) == IF y = 2024 THEN d ELSE d - 31

Civil(day) == IF day >= 1 THEN <<2024, 1, day>> ELSE <<2023, 12, day + 31>>

\* datetime.fromisoformat(s): ok, whether the result is naive, its wall
\* clock in seconds and its offset from UTC
NoDatetime == [ok |-> FALSE, naive |-> FALSE, wall |-> 0, offset |-> 0]

FromIsoFormat(s) ==
    IF /\ Len(s) = 7
       /\ <<s[1], s[2]>> \in {<<2023, 12>>, <<2024, 1>>}
       /\ s[3] \in 1..31 /\ s[4] \in 0..23 /\ s[5] \in 0..59 /\ s[6] \in 0..59
       /\ s[7] \in {ZoneCode(""), ZoneCode("+00:00"), ZoneCode("+01:00"),
                    ZoneCode("-05:00")}
    THEN [ok |-> TRUE, naive |-> s[7] = ZoneCode(""),
          wall |-> ((DayIndex(s[1], s[2], s[3]) * 24 + s[4]) * 60 + s[5]) * 60
                   + s[6],
          offset |-> SuffixOffset(s[7])]
    ELSE NoDatetime

\* A UTC instant in seconds, or none
NoDt == [some |-> FALSE, t |-> 0]
Dt(t) == [some |-> TRUE, t |-> t]

\* parse_dt(value): a text that is not a timestamp gives None, a naive
\* timestamp is taken as UTC, a zoned one is converted to UTC
ParseDt(value) ==
    IF ~Truthy(value) \/ value.t # "str" THEN NoDt
    ELSE LET dt == FromIsoFormat(ReplaceZ(value.s))
         IN  IF ~dt.ok THEN NoDt ELSE Dt(dt.wall - dt.offset)

\* The fields of an instant on the wall clock that is `offset` ahead of UTC
Fields(t, offset, z) ==
    LET w == t + offset
        day == w \div 86400
        rest == w % 86400
    IN  Civil(day) \o <<rest \div 3600, (rest % 3600) \div 60, rest % 60,
                        ZoneCode(z)>>

\* iso_z(dt)
IsoZ(dt) == IF ~dt.some THEN JNull ELSE JStr(Fields(dt.t, 0, "Z"))

\* The environment of the Index Builder: whether zoneinfo could be imported
\* and GRANOLA_TIMEZONE, NotSet when the variable is not set
NotSet == "not set"

\* A mutant of LocalTz: no zone is used when none is configured
LocalTzNoDefault(env) == IF env.tz = NotSet THEN "" ELSE env.tz

\* LOCAL_TZ = os.getenv("GRANOLA_TIMEZONE", "America/New_York")
LocalTz(env) == IF env.tz = NotSet THEN "America/New_York" ELSE env.tz

\* ZoneInfo(key) succeeds, and the zone's suffix in January
ZoneInfoValid(key) == key \in {"America/New_York", "Europe/Paris"}

ZoneSuffix(key) == IF key = "Europe/Paris" THEN "+01:00" ELSE "-05:00"

\* iso_local(dt_utc): the instant on the local wall clock, or none
NoLocal == [some |-> FALSE, t |-> 0, z |-> ""]

IsoLocal(dt_utc, env) ==
    IF ~dt_utc.some THEN NoLocal
    ELSE IF ~env.zoneinfo THEN NoLocal
    ELSE IF ~ZoneInfoValid(LocalTz(env)) THEN NoLocal
    ELSE [some |-> TRUE, t |-> dt_utc.t, z |-> ZoneSuffix(LocalTz(env))]

LocalFields(dt_local) ==
    Fields(dt_local.t, SuffixOffset(ZoneCode(dt_local.z)), dt_local.z)

(***************************************************************************)
(* Index Builder: the files of an artifact directory and its index record  *)
(***************************************************************************)

\* metadata.json and document.json as the Index Builder finds them: absent,
\* not JSON ("unparseable"), a JSON value that is not an object, or an object
\* with the fields the Index Builder looks at.  The calendar event gce and
\* its extended properties ext are "missing", "nonobject" or "object"; start
\* and end say whether they are objects and carry their dateTime; a scope of
\* the extended properties carries meetingParams and cron.zoomMeeting, each
\* missing, a text (that parses as JSON or not, to an object or not) or an
\* object, with the value of its "duration"
NoDur == [t |-> "missing", parses |-> FALSE, dict |-> FALSE, duration |-> Missing]
NoScope == [dict |-> FALSE, meetingParams |-> NoDur, zoom |-> NoDur]
NoExt == [shape |-> "missing", shared |-> NoScope, private |-> NoScope]
NoTime == [dict |-> FALSE, dateTime |-> Missing]
NoGce == [shape |-> "missing", start |-> NoTime, end |-> NoTime, ext |-> NoExt]

NoMeta ==
    [shape |-> "absent", document_id |-> Missing, title |-> Missing,
     meeting_date |-> Missing, created_at |-> Missing, updated_at |-> Missing]

NoDoc ==
    [shape |-> "absent", id |-> Missing, title |-> Missing,
     created_at |-> Missing, updated_at |-> Missing, attendees |-> Missing,
     gce |-> NoGce]

\* read_json(path) if path.exists() else None: what is absent or does not
\* parse is None
ReadJson(file) ==
    IF file.shape \in {"absent", "unparseable"}
    THEN [file EXCEPT !.shape = "none"] ELSE file

\* isinstance(value, dict)
IsDict(value) == value.shape = "object"

\* parse_duration_json(value)
ParseDurationJson(value) ==
    LET isData == \/ value.t = "str" /\ value.parses
                  \/ value.t = "obj"
        duration == IF isData /\ value.dict THEN Get(value.duration) ELSE JNull
    IN  IF duration.t \in {"num", "bool"} THEN duration ELSE JNull

\* int(x / 60) for a whole number of seconds x: towards zero
Minutes(x) == IF x >= 0 THEN x \div 60 ELSE -((-x) \div 60)

\* The first value of a sequence that is not None, or None
RECURSIVE FirstNotNone(_)
FirstNotNone(q) ==
    IF q = <<>> THEN JNull
    ELSE IF Head(q) # JNull THEN Head(q) ELSE FirstNotNone(Tail(q))

\* extract_duration(doc)
ExtractDuration(doc) ==
    IF ~IsDict(doc) \/ doc.gce.shape # "object" THEN JNull
    ELSE
    LET gce == doc.gce
        start_dt == IF gce.start.dict THEN Get(gce.start.dateTime) ELSE JNull
        end_dt == IF gce.end.dict THEN Get(gce.end.dateTime) ELSE JNull
        s == FromIsoFormat(ReplaceZ(start_dt.s))
        e == FromIsoFormat(ReplaceZ(end_dt.s))
        \* inside the try: .replace of a value that is no text, a text that
        \* is no timestamp, the difference of a naive and a zoned time raise
        computed == /\ Truthy(start_dt) /\ Truthy(end_dt)
                    /\ start_dt.t = "str" /\ end_dt.t = "str"
                    /\ s.ok /\ e.ok /\ s.naive = e.naive
        duration_min == Minutes((e.wall - e.offset) - (s.wall - s.offset))
        Scope(sc) == IF ~sc.dict THEN <<>>
                     ELSE <<ParseDurationJson(sc.meetingParams),
                            ParseDurationJson(sc.zoom)>>
    IN  IF computed /\ duration_min > 0 THEN JNum(duration_min)
        ELSE IF gce.ext.shape # "object" THEN JNull
        ELSE FirstNotNone(Scope(gce.ext.shared) \o Scope(gce.ext.private))

\* The first value of a sequence that is truthy, or None
RECURSIVE FirstTruthy(_)
FirstTruthy(q) ==
    IF q = <<>> THEN JNull
    ELSE IF Truthy(Head(q)) THEN Head(q) ELSE FirstTruthy(Tail(q))

\* The candidates of choose_date in its order
DateCandidates(meta, doc) ==
    (IF IsDict(doc) /\ doc.gce.shape = "object" /\ doc.gce.start.dict
     THEN <<doc.gce.start.dateTime>> ELSE <<>>)
    \o (IF IsDict(meta)
        THEN <<meta.meeting_date, meta.created_at, meta.updated_at>>
        ELSE <<>>)
    \o (IF IsDict(doc) THEN <<doc.created_at, doc.updated_at>> ELSE <<>>)

\* choose_date(meta, doc)
ChooseDate(meta, doc) == FirstTruthy(DateCandidates(meta, doc))

\* choose_title(meta, doc)
ChooseTitle(meta, doc) ==
    FirstTruthy((IF IsDict(meta) THEN <<meta.title>> ELSE <<>>)
                \o (IF IsDict(doc) THEN <<doc.title>> ELSE <<>>))

\* A mutant of ChooseId: the id is taken from metadata.json only
ChooseIdOfMetadata(meta, doc, folder_name) ==
    IF IsDict(meta) THEN Get(meta.document_id) ELSE JNull

\* choose_id(meta, doc, folder_name)
ChooseId(meta, doc, folder_name) ==
    FirstTruthy((IF IsDict(meta) THEN <<meta.document_id>> ELSE <<>>)
                \o (IF IsDict(doc) THEN <<doc.id>> ELSE <<>>)
                \o <<JStr(folder_name)>>)

\* extract_attendees(doc)
ExtractAttendees(doc) == IF IsDict(doc) THEN Get(doc.attendees) ELSE JNull

\* full_id[:7]: a slice of a text or of a list; any other value raises
\* TypeError
SliceRaises(full_id) == full_id.t \notin {"str", "list"}

ShortId(full_id) ==
    IF full_id.t = "str" THEN JStr(Prefix(full_id.s, 7))
    ELSE JList(Min(full_id.n, 7))

\* What build_index does with one candidate directory: the record it
\* appends, or the TypeError of the slice that ends build_index.  entry is
\* the directory: its metadata.json and document.json, the other files it
\* holds and its modification time; the path fields of the record are the
\* directory name under ROOT and are not kept apart from `dir`
NoRecord ==
    [id |-> JNull, short_id |-> JNull, dir |-> <<>>, title |-> JNull,
     date_utc |-> JNull, date_local |-> JNull, year |-> JNull,
     month |-> JNull, date_short |-> JNull, attendees_raw |-> JNull,
     duration_min |-> JNull, has_transcript |-> FALSE, has_notes |-> FALSE,
     mtime |-> 0]

IndexRecord(name, entry, env) ==
    LET meta == ReadJson(entry.meta)
        doc == ReadJson(entry.doc)
        dt_utc == ParseDt(ChooseDate(meta, doc))
        dt_local == IsoLocal(dt_utc, env)
        lf == LocalFields(dt_local)
        full_id == ChooseId(meta, doc, name)
    IN  IF SliceRaises(full_id) THEN [raises |-> TRUE, rec |-> NoRecord]
        ELSE [raises |-> FALSE,
              rec |->
                [id |-> full_id,
                 short_id |-> ShortId(full_id),
                 dir |-> name,
                 title |-> ChooseTitle(meta, doc),
                 date_utc |-> IsoZ(dt_utc),
                 date_local |-> IF dt_local.some THEN JStr(lf) ELSE JNull,
                 year |-> IF dt_local.some THEN JNum(lf[1]) ELSE JNull,
                 month |-> IF dt_local.some THEN JNum(lf[2]) ELSE JNull,
                 date_short |-> IF dt_local.some THEN JStr(SubSeq(lf, 1, 3))
                                ELSE JNull,
                 attendees_raw |-> ExtractAttendees(doc),
                 duration_min |-> ExtractDuration(doc),
                 has_transcript |-> \/ "transcript.json" \in entry.files
                                    \/ "transcript.md" \in entry.files,
                 has_notes |-> "resume.md" \in entry.files,
                 mtime |-> entry.mtime]]

\* The sort key of a record: (m.get("date_utc") or "", m.get("dir") or "")
DateKey(m) == IF Truthy(m.date_utc) THEN m.date_utc.s ELSE <<>>

KeyLess(a, b) ==
    IF DateKey(a) # DateKey(b) THEN StrLess(DateKey(a), DateKey(b))
    ELSE StrLess(a.dir, b.dir)

\* list.sort is stable: a record goes before the first record whose key is
\* greater than its own
RECURSIVE InsertByKey(_, _)
InsertByKey(m, q) ==
    IF q = <<>> THEN <<m>>
    ELSE IF KeyLess(m, Head(q)) THEN <<m>> \o q
    ELSE <<Head(q)>> \o InsertByKey(m, Tail(q))

RECURSIVE SortByKey(_)
SortByKey(ms) ==
    IF ms = <<>> THEN <<>>
    ELSE InsertByKey(ms[Len(ms)], SortByKey(SubSeq(ms, 1, Len(ms) - 1)))

\* A mutant of SortMeetings: the records are sorted by their date only
RECURSIVE InsertByDate(_, _)
InsertByDate(m, q) ==
    IF q = <<>> THEN <<m>>
    ELSE IF StrLess(DateKey(m), DateKey(Head(q))) THEN <<m>> \o q
    ELSE <<Head(q)>> \o InsertByDate(m, Tail(q))

RECURSIVE SortByDateOnly(_)
SortByDateOnly(ms) ==
    IF ms = <<>> THEN <<>>
    ELSE InsertByDate(ms[Len(ms)], SortByDateOnly(SubSeq(ms, 1, Len(ms) - 1)))

\* A mutant of SortMeetings: the records stay in the order of enumeration
Unsorted(ms) == ms

\* meetings.sort(key=...)
SortMeetings(ms) == SortByKey(ms)

\* SCHEMA_VERSION, and the payload build_index writes
SchemaVersion == 1

Payload(meetings, now) ==
    [schema_version |-> SchemaVersion, generated_at |-> now,
     root |-> "ROOT", meetings |-> meetings]

\* The index file: whether it exists, the payload whose text it holds and
\* how much of that text it holds, from nothing (0) to all of it (WriteChunks)
WriteChunks == 2

NoFile == [exists |-> FALSE, payload |-> Payload(<<>>, 0), written |-> 0]

Complete(file) == file.exists /\ file.written = WriteChunks

\* What a reader gets from load_index: "missing" (Exit(1)), the payload of a
\* complete file, or the JSONDecodeError of an empty or a truncated text
NoRead == [kind |-> "none", payload |-> Payload(<<>>, 0)]

LoadIndex(file) ==
    IF ~file.exists THEN [NoRead EXCEPT !.kind = "missing"]
    ELSE IF file.written = 0 THEN [NoRead EXCEPT !.kind = "empty"]
    ELSE IF file.written < WriteChunks THEN [NoRead EXCEPT !.kind = "truncated"]
    ELSE [kind |-> "complete", payload |-> file.payload]

\* build_index before it runs: pc its position, root_exists and root the
\* artifact root and its entries, env the environment, pending the entries
\* not yet enumerated, meetings its list, now the clock, file the index
\* file, previous the index file as the running build found it, moved
\* whether the sort changed the order of enumeration, snapshots the payloads
\* of the builds that completed, read what a reader got last since the
\* build started
IndexEnvNone == [zoneinfo |-> TRUE, tz |-> NotSet]

\* What a query command printed last: cmd the command, found whether show
\* found its meeting, shown the index record it printed, resume the text
\* after "Resume:", json_has_resume the has_resume of the JSON output (FALSE
\* also when the output has no such key), with_resume the count of stats,
\* meetings the records the command read
NoQuery ==
    [cmd |-> "none", found |-> FALSE, shown |-> NoRecord, resume |-> "none",
     json_has_resume |-> FALSE, with_resume |-> 0, meetings |-> <<>>]

IndexIdle ==
    [pc |-> "idle", root_exists |-> TRUE, root |-> <<>>, env |-> IndexEnvNone,
     pending |-> {}, meetings |-> <<>>, now |-> 0, builds |-> 0,
     file |-> NoFile, previous |-> NoFile, snapshots |-> <<>>,
     read |-> NoRead, moved |-> FALSE, query |-> NoQuery]

\* The computation of one record: the files of a directory, the environment
\* and the result
NoEntry == [is_dir |-> TRUE, meta |-> NoMeta, doc |-> NoDoc, files |-> {}, mtime |-> 0]

RecordIdle ==
    [status |-> "idle", name |-> <<>>, entry |-> NoEntry, env |-> IndexEnvNone,
     raises |-> FALSE, rec |-> NoRecord]

(***************************************************************************)
(* Document Renderer: convert_prosemirror_to_markdown                      *)
(***************************************************************************)

\* A value of the document tree: kind is what the value is ("dict", or
\* "null", "str", "num", "list" for a value that is no object); for an
\* object, type is its 'type' ("" when it has none), text its 'text', attrs
\* its 'attrs' ("missing", "null" or an object with its 'level') and content
\* its 'content': "missing", "null", a number, a text or the list `items`
NoContent == [t |-> "missing", items |-> <<>>]
NullContent == [t |-> "null", items |-> <<>>]
ListContent(items) == [t |-> "list", items |-> items]
NoAttrs == [t |-> "missing", level |-> Missing]

Atom(kind) ==
    [kind |-> kind, type |-> "", text |-> Missing, attrs |-> NoAttrs,
     content |-> NoContent]

Node(type, content) ==
    [kind |-> "dict", type |-> type, text |-> Missing, attrs |-> NoAttrs,
     content |-> content]

TextNode(text) == [Node("text", NoContent) EXCEPT !.text = text]

\* What a call gives: it raises, or returns a text s, or returns a value
\* that is no text
Returned(s) == [raises |-> FALSE, str |-> TRUE, s |-> s]
Raised == [raises |-> TRUE, str |-> FALSE, s |-> <<>>]
ReturnedNonText == [raises |-> FALSE, str |-> FALSE, s |-> <<>>]

Blank == {Ord(" "), Ord("\n")}

\* str.strip()
RECURSIVE Strip(_)
Strip(s) ==
    IF s = <<>> THEN s
    ELSE IF Head(s) \in Blank THEN Strip(Tail(s))
    ELSE IF s[Len(s)] \in Blank THEN Strip(SubSeq(s, 1, Len(s) - 1))
    ELSE s

RECURSIVE ProcessNode(_)
RECURSIVE JoinNodes(_)
RECURSIVE ListItems(_)

\* ''.join(process_node(child) for child in items): join raises TypeError
\* for a child whose result is no text
JoinNodes(items) ==
    IF items = <<>> THEN Returned(<<>>)
    ELSE LET h == ProcessNode(Head(items))
             r == JoinNodes(Tail(items))
         IN  IF h.raises \/ ~h.str \/ r.raises THEN Raised
             ELSE Returned(h.s \o r.s)

\* ''.join(process_node(child) for child in content): None and a number
\* cannot be iterated; the characters of a text are no nodes
JoinContent(content) ==
    CASE content.t \in {"null", "num"} -> Raised
      [] content.t \in {"missing", "str"} -> Returned(<<>>)
      [] OTHER -> JoinNodes(content.items)

\* The loop of the bulletList branch over the items of the list: the lines
\* it collects; item.get raises AttributeError for an item that is no object
ListItems(items) ==
    IF items = <<>> THEN [raises |-> FALSE, lines |-> <<>>]
    ELSE LET item == Head(items)
             inner == JoinContent(item.content)
             r == ListItems(Tail(items))
             line == <<Ord("-"), Ord(" ")>> \o Strip(inner.s)
         IN  IF item.kind # "dict" THEN [raises |-> TRUE, lines |-> <<>>]
             ELSE IF item.type # "listItem" THEN r
             ELSE IF inner.raises \/ r.raises
             THEN [raises |-> TRUE, lines |-> <<>>]
             ELSE [raises |-> FALSE, lines |-> <<line>> \o r.lines]

\* '\n'.join(lines)
RECURSIVE JoinLines(_)
JoinLines(lines) ==
    IF lines = <<>> THEN <<>>
    ELSE IF Len(lines) = 1 THEN lines[1]
    ELSE lines[1] \o <<Ord("\n")>> \o JoinLines(Tail(lines))

\* '#' * level
Hashes(attrs) ==
    LET level == IF attrs.t = "missing" \/ attrs.level.t = "missing"
                 THEN JNum(1) ELSE attrs.level
    IN  IF attrs.t = "null" \/ level.t \notin {"num", "bool"} THEN Raised
        ELSE Returned(Rep(IF level.n > 0 THEN level.n ELSE 0, "#"))

\* process_node(node)
ProcessNode(node) ==
    IF node.kind # "dict" THEN Returned(<<>>)
    ELSE
    LET joined == JoinContent(node.content)
        nl2 == <<Ord("\n"), Ord("\n")>>
    IN  CASE node.type = "heading" ->
               LET h == Hashes(node.attrs)
               IN  IF h.raises \/ joined.raises THEN Raised
                   ELSE Returned(h.s \o <<Ord(" ")>> \o joined.s \o nl2)
          [] node.type = "paragraph" ->
               IF joined.raises THEN Raised ELSE Returned(joined.s \o nl2)
          [] node.type = "bulletList" ->
               IF node.content.t \in {"null", "num"} THEN Raised
               ELSE IF node.content.t \in {"missing"} THEN Returned(nl2)
               ELSE IF node.content.t = "str" THEN Raised
               ELSE LET r == ListItems(node.content.items)
                    IN  IF r.raises THEN Raised
                        ELSE Returned(JoinLines(r.lines) \o nl2)
          [] node.type = "text" ->
               IF node.text.t = "missing" THEN Returned(<<>>)
               ELSE IF node.text.t = "str" THEN Returned(node.text.s)
               ELSE ReturnedNonText
          [] OTHER -> joined

\* convert_prosemirror_to_markdown(content)
ConvertProsemirrorToMarkdown(content) ==
    IF content.kind # "dict" \/ content.content.t = "missing"
    THEN Returned(<<>>)
    ELSE ProcessNode(content)

\* One call of the renderer: its argument and its result
RenderIdle == [status |-> "idle", input |-> Atom("null"), result |-> Returned(<<>>)]

(***************************************************************************)
(* Actions                                                                 *)
(***************************************************************************)

NeedsIdle ==
    [status |-> "idle", doc |-> [id |-> NoId, updated_at |-> Null],
     sync_state |-> EmptyState, result |-> FALSE]

\* run_sync(output_dir, full) is called
RunSyncStart ==
    /\ run.pc = "idle"
    /\ runs < MaxRuns
    /\ \E full \in BOOLEAN, dirOk \in BOOLEAN, tokenOk \in BOOLEAN :
          /\ Bit(~dirOk) + Bit(~tokenOk) <= faults
          /\ dirOk \/ tokenOk
          /\ run' = [RunStart(full, dirOk, tokenOk, tree, state_file, top_files)
                        EXCEPT !.previous = run.previous]
          /\ faults' = faults - Bit(~dirOk) - Bit(~tokenOk)
    /\ runs' = runs + 1
    /\ UNCHANGED <<sideVars, retry, fetch, needs, remote, tree, top_files, state_file>>

\* fetch_workspaces and fetch_document_lists, each answer saved to a file
\* of the output directory when there is one
RunSyncMetadata ==
    /\ run.pc = "meta"
    /\ \E ws \in BOOLEAN, ls \in BOOLEAN :
          /\ Bit(~ws) + Bit(~ls) <= faults
          /\ run' = RunMetadata(run, ws, ls)
          /\ top_files' = top_files
                \cup (IF ws THEN {"workspaces.json"} ELSE {})
                \cup (IF ls THEN {"document_lists.json"} ELSE {})
          /\ faults' = faults - Bit(~ws) - Bit(~ls)
    /\ UNCHANGED <<sideVars, retry, fetch, needs, remote, tree, state_file, runs>>

\* The document list fetch, its dump to granola_api_response.json (also of
\* None) and the early returns
RunSyncDocuments ==
    /\ run.pc = "docs"
    /\ \E failPage \in -1..(Len(remote) \div PageLimit), how \in PageFailures :
          /\ Bit(failPage >= 0) <= faults
          /\ failPage = -1 => how = "error"
          /\ run' = RunDocuments(run, remote, failPage, how)
          /\ faults' = faults - Bit(failPage >= 0)
    /\ top_files' = IF run'.api_response = NoResponse THEN top_files
                    ELSE top_files \cup {"granola_api_response.json"}
    /\ UNCHANGED <<sideVars, retry, fetch, needs, remote, tree, state_file, runs>>

Iterate(e) ==
    LET doc == run.documents[run.idx]
        out == LoopIteration(run, tree, state_file, doc, e)
    IN  /\ EnvFits(e, run, doc)
        /\ run' = out.run
        /\ tree' = out.tree
        /\ state_file' = out.state_file
        /\ faults' = faults - EnvCost(e)
        /\ UNCHANGED <<sideVars, retry, fetch, needs, remote, top_files, runs>>

\* One iteration of the document loop
RunSyncDocument ==
    /\ run.pc = "loop"
    /\ run.idx <= Len(run.documents)
    /\ \E e \in Envs : Iterate(e)

\* One iteration of the document loop for a document that has neither a
\* transcript nor a note panel
RunSyncPlainDocument ==
    /\ run.pc = "loop"
    /\ run.idx <= Len(run.documents)
    /\ \E e \in Envs :
          /\ e.transcript # "data"
          /\ ~e.panel
          /\ Iterate(e)

\* After the loop: the unconditional save_sync_state and the report
RunSyncFinish ==
    /\ run.pc = "loop"
    /\ run.idx > Len(run.documents)
    /\ \E how \in SaveOutcomes :
          /\ Bit(how # "ok") <= faults
          /\ state_file' = SaveSyncState(state_file, run.sync_state, how)
          /\ faults' = faults - Bit(how # "ok")
    /\ run' = [run EXCEPT !.pc = "done", !.outcome = "complete"]
    /\ UNCHANGED <<sideVars, retry, fetch, needs, remote, tree, top_files, runs>>

\* Between two runs the service's list may change
NextRun ==
    /\ run.pc = "done"
    /\ runs < MaxRuns
    /\ run' = RunIdle
    /\ remote' \in Evolutions(remote)
    /\ UNCHANGED <<sideVars, retry, fetch, needs, tree, top_files, state_file, runs, faults>>

SyncIdle ==
    /\ remote = <<>>
    /\ tree = EmptyMap
    /\ top_files = {}
    /\ state_file = MissingFile
    /\ run = RunIdle
    /\ runs = 0
    /\ faults = 0

Scripts == [1..MaxRetries -> Responses]

\* The remote lists: documents 1..n in the service's order
RemoteLists == {[i \in 1..n |-> i] : n \in 0..MaxRemote}

\* A caller starts the paginated fetch
FetchCall ==
    /\ fetch.status = "idle"
    /\ \E list \in RemoteLists, limit \in 1..MaxLimit :
          fetch' = FetchStart(list, limit)
    /\ UNCHANGED <<sideVars, retry, needs, syncVars>>

\* One page request and the rest of its loop iteration
FetchPage ==
    /\ fetch.status = "running"
    /\ \E script \in Scripts :
          fetch' = FetchIteration(fetch, FetchDocumentsPageRetried(fetch, script))
    /\ UNCHANGED <<sideVars, retry, needs, syncVars>>

(***************************************************************************)
(* The retry wrapper, step by step                                         *)
(***************************************************************************)

\* A caller invokes one of the decorated functions
RetryCall ==
    /\ retry.status = "idle"
    /\ \E op \in Operations : retry' = RetryStart(op)
    /\ UNCHANGED <<sideVars, fetch, needs, syncVars>>

\* One attempt of the wrapper, the answers of the service chosen freely
RetryAttempt ==
    /\ retry.status = "running"
    /\ \E r1 \in Responses, r2 \in Responses :
          retry' = RetryIteration(retry, r1, r2)
    /\ UNCHANGED <<sideVars, fetch, needs, syncVars>>

InitRetry ==
    /\ token = TokenIdle
    /\ batch = BatchIdle
    /\ index = IndexIdle
    /\ record = RecordIdle
    /\ render = RenderIdle
    /\ retry = RetryIdle
    /\ fetch = FetchIdle
    /\ needs = NeedsIdle
    /\ SyncIdle

NextRetry == RetryCall \/ RetryAttempt

SpecRetry == InitRetry /\ [][NextRetry]_vars

InitFetch ==
    /\ token = TokenIdle
    /\ batch = BatchIdle
    /\ index = IndexIdle
    /\ record = RecordIdle
    /\ render = RenderIdle
    /\ retry = RetryIdle
    /\ fetch = FetchIdle
    /\ needs = NeedsIdle
    /\ SyncIdle

NextFetch == FetchCall \/ FetchPage

SpecFetch == InitFetch /\ [][NextFetch]_vars

(***************************************************************************)
(* needs_sync on its own                                                   *)
(***************************************************************************)

\* Bounds of the updated_at strings tried
MaxStampLen == 2
MaxDigit == 2

RECURSIVE DigitStrings(_)
DigitStrings(n) ==
    IF n = 0 THEN {<<>>}
    ELSE LET shorter == DigitStrings(n - 1)
         IN  shorter \cup {Append(q, d) : q \in shorter, d \in 1..MaxDigit}

Stamps == {Null} \cup {Str(q) : q \in DigitStrings(MaxStampLen)}

NeedsDocs == [id : {NoId, 1, 2}, updated_at : Stamps]

\* SyncStates with no entry, or one entry for document 1
NeedsStates ==
    {EmptyState} \cup
    {[kind |-> "object",
      documents |-> Put(EmptyMap, 1, [updated_at |-> u, title |-> "T"])] :
        u \in Stamps}

\* needs_sync(doc, sync_state) returns
NeedsReturn ==
    /\ needs.status = "called"
    /\ needs' = [needs EXCEPT !.status = "returned",
                              !.result = NeedsSync(needs.doc, needs.sync_state)]
    /\ UNCHANGED <<sideVars, retry, fetch, syncVars>>

InitNeeds ==
    /\ token = TokenIdle
    /\ batch = BatchIdle
    /\ index = IndexIdle
    /\ record = RecordIdle
    /\ render = RenderIdle
    /\ retry = RetryIdle
    /\ fetch = FetchIdle
    /\ needs \in [status : {"called"}, doc : NeedsDocs,
                  sync_state : NeedsStates, result : {FALSE}]
    /\ SyncIdle

NextNeeds == NeedsReturn

SpecNeeds == InitNeeds /\ [][NextNeeds]_vars

(***************************************************************************)
(* run_sync, run after run                                                 *)
(***************************************************************************)

Init ==
    /\ token = TokenIdle
    /\ batch = BatchIdle
    /\ index = IndexIdle
    /\ record = RecordIdle
    /\ render = RenderIdle
    /\ retry = RetryIdle
    /\ fetch = FetchIdle
    /\ needs = NeedsIdle
    /\ remote \in RemoteDocLists
    /\ tree = EmptyMap
    /\ top_files = {}
    /\ state_file = MissingFile
    /\ run = RunIdle
    /\ runs = 0
    /\ faults = MaxFaults

Next ==
    \/ RunSyncStart
    \/ RunSyncMetadata
    \/ RunSyncDocuments
    \/ RunSyncDocument
    \/ RunSyncFinish
    \/ NextRun

Spec == Init /\ [][Next]_vars

\* One run over a list longer than the checkpoint interval, one failure
InitLong ==
    /\ token = TokenIdle
    /\ batch = BatchIdle
    /\ index = IndexIdle
    /\ record = RecordIdle
    /\ render = RenderIdle
    /\ retry = RetryIdle
    /\ fetch = FetchIdle
    /\ needs = NeedsIdle
    /\ remote = LongList
    /\ tree = EmptyMap
    /\ top_files = {}
    /\ state_file = MissingFile
    /\ run = RunIdle
    /\ runs = MaxRuns - 1
    /\ faults = 1

NextLong ==
    \/ RunSyncStart
    \/ RunSyncMetadata
    \/ RunSyncDocuments
    \/ RunSyncPlainDocument
    \/ RunSyncFinish

SpecLong == InitLong /\ [][NextLong]_vars

(***************************************************************************)
(* run_sync over a sync-state file of any shape                            *)
(***************************************************************************)

\* A document directory written to its end
SyncedDir == [f \in RunFiles |-> "ok"]

\* The sync-state files a run may find: none, one that is no JSON, JSON of
\* another shape, or the state an earlier run saved for document 1
LoadFiles ==
    {MissingFile, CorruptFile, NonObjectFile, NoDocumentsFile}
    \cup {JsonFile([kind |-> "object",
                    documents |-> Put(EmptyMap, 1, [updated_at |-> u,
                                                    title |-> "T"])]) :
             u \in RunStamps}

\* The remote lists of these runs: documents 1..n, concluded or not, with
\* or without an updated_at
LoadDocLists ==
    {q \in RemoteDocLists :
        \A i \in DOMAIN q : q[i].updated_at \in {Null, Str(<<1>>)}}

\* One run over an output directory left by earlier runs, one failure of
\* the environment at most
InitLoad ==
    /\ token = TokenIdle
    /\ batch = BatchIdle
    /\ index = IndexIdle
    /\ record = RecordIdle
    /\ render = RenderIdle
    /\ retry = RetryIdle
    /\ fetch = FetchIdle
    /\ needs = NeedsIdle
    /\ remote \in LoadDocLists
    /\ state_file \in LoadFiles
    /\ tree = [id \in DOMAIN state_file.documents |-> SyncedDir]
    /\ top_files = {}
    /\ run = RunIdle
    /\ runs = MaxRuns - 1
    /\ faults = 1

NextLoad ==
    \/ RunSyncStart
    \/ RunSyncMetadata
    \/ RunSyncDocuments
    \/ RunSyncDocument
    \/ RunSyncFinish

SpecLoad == InitLoad /\ [][NextLoad]_vars

(***************************************************************************)
(* The TokenManager, call by call                                          *)
(***************************************************************************)

\* Bounds: the calls on one TokenManager after another, the processes, the
\* clock (in steps of TickSeconds)
MaxTokenCalls == 2
MaxProcesses == 2
MaxTicks == 1

TickSeconds == 1800

AccessTokens == {"a1"}
RefreshTokens == {"r1"}

\* The .env stores a first process may find: the credentials or not, the
\* access token of an earlier refresh with its expiry or not
TokenStores ==
    {st \in [access_token : {None, "a0"}, refresh_token : {None, "r0"},
             client_id : {None, "cid"},
             token_expiry : {Unset, DefaultExpiresIn}] :
        st.access_token = None <=> st.token_expiry = Unset}

TokenResponses ==
    {TokenError} \cup
    [kind : {"ok"}, access_token : AccessTokens,
     refresh_token : {None} \cup RefreshTokens, expires_in : {Unset, 60}]

\* A process starts and constructs its TokenManager (run_sync, line 476)
TokenManagerNew ==
    /\ token.pc = "idle"
    /\ token.processes < MaxProcesses
    /\ token' = [token EXCEPT !.pc = "ready",
                              !.tm = TokenManagerInit(token.env),
                              !.processes = @ + 1,
                              !.last = NoTokenCall]
    /\ UNCHANGED <<batch, indexVars, retry, fetch, needs, syncVars>>

TokenCall(op, r, resp, failAt) ==
    [token EXCEPT !.tm = r.tm, !.env = r.env, !.calls = @ + 1,
                  !.last = [op |-> op, ok |-> r.ok, sent |-> r.sent,
                            returned |-> r.returned,
                            before |-> token.tm, env_before |-> token.env,
                            resp |-> resp, failAt |-> failAt]]

\* refresh_access_token() is called
TokenRefresh ==
    /\ token.pc = "ready"
    /\ token.calls < MaxTokenCalls
    /\ \E resp \in TokenResponses, failAt \in SaveEnvFailures :
          LET r == RefreshAccessToken(token.tm, token.env, token.now, resp, failAt)
          IN  token' = TokenCall("refresh",
                           [ok |-> r.ok, sent |-> r.sent, tm |-> r.tm,
                            env |-> r.env, returned |-> None],
                           resp, failAt)
    /\ UNCHANGED <<batch, indexVars, retry, fetch, needs, syncVars>>

\* get_valid_token() is called (run_sync, line 479)
TokenGet ==
    /\ token.pc = "ready"
    /\ token.calls < MaxTokenCalls
    /\ \E resp \in TokenResponses, failAt \in SaveEnvFailures :
          token' = TokenCall("get",
                       GetValidToken(token.tm, token.env, token.now, resp, failAt),
                       resp, failAt)
    /\ UNCHANGED <<batch, indexVars, retry, fetch, needs, syncVars>>

\* The process ends: its TokenManager is gone, the .env store stays
TokenExit ==
    /\ token.pc = "ready"
    /\ token.processes < MaxProcesses
    /\ token' = [token EXCEPT !.pc = "idle", !.tm = NoTokenState, !.calls = 0,
                              !.last = NoTokenCall]
    /\ UNCHANGED <<batch, indexVars, retry, fetch, needs, syncVars>>

\* Time passes
TokenTick ==
    /\ token.now < MaxTicks * TickSeconds
    /\ token' = [token EXCEPT !.now = @ + TickSeconds]
    /\ UNCHANGED <<batch, indexVars, retry, fetch, needs, syncVars>>

InitToken ==
    /\ token \in {[TokenIdle EXCEPT !.env = env] : env \in TokenStores}
    /\ batch = BatchIdle
    /\ index = IndexIdle
    /\ record = RecordIdle
    /\ render = RenderIdle
    /\ retry = RetryIdle
    /\ fetch = FetchIdle
    /\ needs = NeedsIdle
    /\ SyncIdle

NextToken ==
    \/ TokenManagerNew
    \/ TokenRefresh
    \/ TokenGet
    \/ TokenExit
    \/ TokenTick

SpecToken == InitToken /\ [][NextToken]_vars

(***************************************************************************)
(* The chunked batch fetch, batch by batch                                 *)
(***************************************************************************)

\* Bounds: the ids of a call and the batch sizes tried
MaxBatchIds == 5
MaxBatchSize == 2

\* A caller starts the batch fetch
BatchCall ==
    /\ batch.status = "idle"
    /\ \E n \in 0..MaxBatchIds, batch_size \in 1..MaxBatchSize :
          batch' = BatchStart([i \in 1..n |-> i], batch_size)
    /\ UNCHANGED <<token, indexVars, retry, fetch, needs, syncVars>>

\* One batch request and the rest of its loop iteration
BatchPage ==
    /\ batch.status = "running"
    /\ \E script \in Scripts :
          batch' = BatchIteration(batch, FetchBatchPageRetried(batch, script))
    /\ UNCHANGED <<token, indexVars, retry, fetch, needs, syncVars>>

InitBatch ==
    /\ token = TokenIdle
    /\ batch = BatchIdle
    /\ index = IndexIdle
    /\ record = RecordIdle
    /\ render = RenderIdle
    /\ retry = RetryIdle
    /\ fetch = FetchIdle
    /\ needs = NeedsIdle
    /\ SyncIdle

NextBatch == BatchCall \/ BatchPage

SpecBatch == InitBatch /\ [][NextBatch]_vars

(***************************************************************************)
(* SpecIndex: build_index over an artifact root, entry by entry in any     *)
(* order, the index file written piece by piece, a reader of the index     *)
(* file reading it at any moment, and Ctrl-C at any moment                 *)
(***************************************************************************)

MaxEntries == 3
MaxBuilds == 2

\* The names of the entries of the artifact root: two canonical identifiers,
\* one written without hyphens, one that is none (g is no hexadecimal
\* digit), a directory of another name and the sync-state file
CanonicalName(c) ==
    Rep(8, c) \o <<Ord("-")>> \o Rep(4, c) \o <<Ord("-")>> \o Rep(4, c)
    \o <<Ord("-")>> \o Rep(4, c) \o <<Ord("-")>> \o Rep(12, c)

CompactName == Rep(32, "2")

OtherName == Chars(<<"n", "o", "t", "e", "s">>)

StateFileName ==
    Chars(<<".", "g", "r", "a", "n", "o", "l", "a", "_", "s", "y", "n", "c",
            "_", "s", "t", "a", "t", "e", ".", "j", "s", "o", "n">>)

\* Directories: without metadata.json and document.json, with a metadata.json
\* dated by created_at, with a document.json dated by updated_at, with a
\* metadata.json whose document_id is a number
Dir(meta, doc) ==
    [is_dir |-> TRUE, meta |-> meta, doc |-> doc,
     files |-> {"transcript.md"}, mtime |-> 1]

PlainFile == [NoEntry EXCEPT !.is_dir = FALSE]

MetaDated(s) == [NoMeta EXCEPT !.shape = "object", !.created_at = JStr(s)]

DocDated(s) == [NoDoc EXCEPT !.shape = "object", !.updated_at = JStr(s)]

MetaNumberId == [NoMeta EXCEPT !.shape = "object", !.document_id = JNum(5)]

\* The entries each name can stand for
EntriesOf(name) ==
    CASE name = CanonicalName("1") ->
           {Dir(NoMeta, NoDoc),
            Dir(MetaDated(Stamp(2, 10, 0, 0, "Z")), NoDoc),
            Dir(MetaNumberId, NoDoc)}
      [] name = CanonicalName("a") ->
           {Dir(NoMeta, DocDated(Stamp(2, 11, 0, 0, "+01:00"))),
            Dir(NoMeta, DocDated(Stamp(1, 9, 0, 0, ""))),
            PlainFile}
      [] name = CompactName -> {Dir(NoMeta, NoDoc)}
      [] name = CanonicalName("g") ->
           {Dir(MetaDated(Stamp(2, 10, 0, 0, "Z")), NoDoc)}
      [] name = OtherName -> {Dir(NoMeta, NoDoc)}
      [] OTHER -> {PlainFile}

RootNames ==
    {CanonicalName("1"), CanonicalName("a"), CompactName, CanonicalName("g"),
     OtherName, StateFileName}

Roots ==
    UNION {{r \in [names -> UNION {EntriesOf(n) : n \in names}] :
                \A n \in names : r[n] \in EntriesOf(n)} :
           names \in {ns \in SUBSET RootNames : Cardinality(ns) <= MaxEntries}}

\* build_index starts: ROOT is looked for, the scan begins
BuildIndexStart ==
    /\ index.pc \in {"idle", "done", "aborted", "interrupted", "exit"}
    /\ index.builds < MaxBuilds
    /\ index' = [index EXCEPT
                   !.pc = IF index.root_exists THEN "scan" ELSE "exit",
                   !.builds = @ + 1,
                   !.now = @ + 1,
                   !.pending = DOMAIN index.root,
                   !.meetings = <<>>,
                   !.moved = FALSE,
                   !.previous = index.file,
                   !.read = NoRead]
    /\ UNCHANGED <<token, batch, record, render, retry, fetch, needs, syncVars>>

\* One iteration of `for entry in it`, os.scandir giving the entries in any
\* order
BuildIndexEntry ==
    /\ index.pc = "scan"
    /\ \E name \in index.pending :
          LET entry == index.root[name]
              r == IndexRecord(name, entry, index.env)
              i1 == [index EXCEPT !.pending = @ \ {name}]
          IN  index' =
                IF ~entry.is_dir \/ ~IsUuidFolder(name) THEN i1
                ELSE IF r.raises THEN [i1 EXCEPT !.pc = "aborted"]
                ELSE [i1 EXCEPT !.meetings = Append(@, r.rec)]
    /\ UNCHANGED <<token, batch, record, render, retry, fetch, needs, syncVars>>

\* After the loop: the sort, the payload, and write_text opening the index
\* file for writing, which empties it
BuildIndexOpen ==
    /\ index.pc = "scan"
    /\ index.pending = {}
    /\ index' = [index EXCEPT
                   !.pc = "write",
                   !.meetings = SortMeetings(@),
                   !.moved = SortMeetings(index.meetings) # index.meetings,
                   !.file = [exists |-> TRUE,
                             payload |-> Payload(SortMeetings(index.meetings),
                                                 index.now),
                             written |-> 0]]
    /\ UNCHANGED <<token, batch, record, render, retry, fetch, needs, syncVars>>

\* write_text writes the next piece of the text; after the last one
\* build_index reports and returns
BuildIndexWrite ==
    /\ index.pc = "write"
    /\ LET written == index.file.written + 1
       IN  index' = [index EXCEPT
                       !.file.written = written,
                       !.pc = IF written = WriteChunks THEN "done" ELSE @,
                       !.snapshots =
                           IF written = WriteChunks
                           THEN Append(@, [payload |-> index.file.payload,
                                           moved |-> index.moved])
                           ELSE @]
    /\ UNCHANGED <<token, batch, record, render, retry, fetch, needs, syncVars>>

\* KeyboardInterrupt while build_index runs: the process exits
BuildIndexInterrupt ==
    /\ index.pc \in {"scan", "write"}
    /\ index' = [index EXCEPT !.pc = "interrupted"]
    /\ UNCHANGED <<token, batch, record, render, retry, fetch, needs, syncVars>>

\* A reader calls load_index
ReadIndex ==
    /\ index.pc # "idle"
    /\ index' = [index EXCEPT !.read = LoadIndex(index.file)]
    /\ UNCHANGED <<token, batch, record, render, retry, fetch, needs, syncVars>>

InitIndex ==
    /\ token = TokenIdle
    /\ batch = BatchIdle
    /\ \E root_exists \in BOOLEAN :
          \E root \in IF root_exists THEN Roots ELSE {<<>>} :
             index = [IndexIdle EXCEPT !.root_exists = root_exists,
                                       !.root = root]
    /\ record = RecordIdle
    /\ render = RenderIdle
    /\ retry = RetryIdle
    /\ fetch = FetchIdle
    /\ needs = NeedsIdle
    /\ SyncIdle

NextIndex ==
    \/ BuildIndexStart
    \/ BuildIndexEntry
    \/ BuildIndexOpen
    \/ BuildIndexWrite
    \/ BuildIndexInterrupt
    \/ ReadIndex

SpecIndex == InitIndex /\ [][NextIndex]_vars

(***************************************************************************)
(* SpecRecord: the index record of one artifact directory as a function of *)
(* its metadata.json, its document.json and the environment                *)
(***************************************************************************)

\* The values of a date field: missing, a timestamp of the given day (each
\* field has a day of its own), a text that is no timestamp, a number
NoTimestamp == JStr(OtherName)

DateValues(day) ==
    {Missing, JStr(Stamp(day, 10, 0, 0, "Z")), NoTimestamp, JNum(5)}

\* metadata.json: absent, not JSON, a list, or an object with date fields
DatedMetas ==
    {NoMeta, [NoMeta EXCEPT !.shape = "unparseable"],
     [NoMeta EXCEPT !.shape = "nonobject"]}
    \cup {[NoMeta EXCEPT !.shape = "object", !.meeting_date = d1,
                         !.created_at = d2, !.updated_at = d3] :
            d1 \in DateValues(2), d2 \in DateValues(3), d3 \in DateValues(4)}

\* document.json: absent, a list, or an object with date fields and a
\* calendar event that is missing, no object, or an object with a start
TimeOf(v) == [dict |-> TRUE, dateTime |-> v]

GceStarting(v) == [NoGce EXCEPT !.shape = "object", !.start = TimeOf(v)]

DatedDocs ==
    {NoDoc, [NoDoc EXCEPT !.shape = "nonobject"]}
    \cup {[NoDoc EXCEPT !.shape = "object", !.created_at = d1,
                        !.updated_at = d2, !.gce = g] :
            d1 \in {Missing, JStr(Stamp(5, 10, 0, 0, "")), NoTimestamp},
            d2 \in {Missing, JStr(Stamp(6, 10, 0, 0, "+01:00"))},
            g \in {NoGce, [NoGce EXCEPT !.shape = "nonobject"]}
                  \cup {GceStarting(v) : v \in DateValues(1)}}

\* The values of start.dateTime and end.dateTime of a calendar event
TimeValues ==
    {Missing, NoTimestamp, JNum(5),
     JStr(Stamp(1, 10, 0, 0, "Z")), JStr(Stamp(1, 10, 0, 30, "Z")),
     JStr(Stamp(1, 10, 30, 0, "Z")), JStr(Stamp(1, 10, 30, 0, "")),
     JStr(Stamp(1, 11, 0, 0, "+01:00"))}

\* meetingParams and cron.zoomMeeting: missing, a text that is no JSON, a
\* JSON text or an object with the given duration, a JSON text of a list
DurationOf(t, v) == [t |-> t, parses |-> TRUE, dict |-> TRUE, duration |-> v]

DurationValues ==
    {NoDur, [NoDur EXCEPT !.t = "str"],
     [NoDur EXCEPT !.t = "str", !.parses = TRUE], [NoDur EXCEPT !.t = "num"]}
    \cup {DurationOf(t, v) :
            t \in {"str", "obj"},
            v \in {Missing, JNum(45), JNum(0), JNum(-15), JBool(TRUE),
                   JStr(Stamp(1, 10, 0, 0, "Z"))}}

Scopes ==
    {NoScope}
    \cup {[dict |-> TRUE, meetingParams |-> m, zoom |-> NoDur] :
            m \in DurationValues}
    \cup {[dict |-> TRUE, meetingParams |-> NoDur, zoom |-> z] :
            z \in DurationValues}

Exts ==
    {NoExt, [NoExt EXCEPT !.shape = "nonobject"]}
    \cup {[shape |-> "object", shared |-> s, private |-> NoScope] : s \in Scopes}
    \cup {[shape |-> "object", shared |-> NoScope, private |-> p] : p \in Scopes}
    \cup {[shape |-> "object",
           shared |-> [NoScope EXCEPT !.dict = TRUE,
                                      !.zoom = DurationOf("obj", JNum(45))],
           private |-> [NoScope EXCEPT !.dict = TRUE,
                                       !.meetingParams = DurationOf("str", JNum(0))]]}

TimedDocs ==
    {[NoDoc EXCEPT !.shape = "object",
                   !.gce = [shape |-> "object", start |-> TimeOf(s),
                            end |-> TimeOf(e), ext |-> x]] :
        s \in TimeValues, e \in TimeValues,
        x \in {NoExt,
               [shape |-> "object",
                shared |-> [NoScope EXCEPT !.dict = TRUE,
                              !.meetingParams = DurationOf("str", JNum(45))],
                private |-> NoScope]}}
    \cup {[NoDoc EXCEPT !.shape = "object",
                        !.gce = [NoGce EXCEPT !.shape = "object", !.ext = x]] :
            x \in Exts}

\* The environment: zoneinfo importable or not; GRANOLA_TIMEZONE not set,
\* empty, the name of a zone or a name that is none
IndexEnvs ==
    [zoneinfo : BOOLEAN,
     tz : {NotSet, "", "Europe/Paris", "America/New_York", "Not/AZone"}]

ZonedDocs ==
    {NoDoc,
     [NoDoc EXCEPT !.shape = "object",
                   !.created_at = JStr(Stamp(1, 0, 30, 0, "Z"))],
     [NoDoc EXCEPT !.shape = "object",
                   !.created_at = JStr(Stamp(1, 23, 30, 0, "Z"))],
     [NoDoc EXCEPT !.shape = "object", !.created_at = NoTimestamp]}

\* The inputs of the model: dated files, timed calendar events and zones
RecordInputs ==
    {[meta |-> m, doc |-> d, env |-> IndexEnvNone] :
        m \in DatedMetas, d \in DatedDocs}
    \cup {[meta |-> NoMeta, doc |-> d, env |-> IndexEnvNone] : d \in TimedDocs}
    \cup {[meta |-> NoMeta, doc |-> d, env |-> e] :
            d \in ZonedDocs, e \in IndexEnvs}

\* The loop body of build_index for one candidate directory
BuildRecord ==
    /\ record.status = "idle"
    /\ LET r == IndexRecord(record.name, record.entry, record.env)
       IN  record' = [record EXCEPT !.status = "built",
                                    !.raises = r.raises, !.rec = r.rec]
    /\ UNCHANGED <<token, batch, index, render, retry, fetch, needs, syncVars>>

InitRecord ==
    /\ token = TokenIdle
    /\ batch = BatchIdle
    /\ index = IndexIdle
    /\ \E in \in RecordInputs :
          record = [RecordIdle EXCEPT !.name = CanonicalName("1"),
                                      !.entry = Dir(in.meta, in.doc),
                                      !.env = in.env]
    /\ render = RenderIdle
    /\ retry = RetryIdle
    /\ fetch = FetchIdle
    /\ needs = NeedsIdle
    /\ SyncIdle

NextRecord == BuildRecord

SpecRecord == InitRecord /\ [][NextRecord]_vars

(***************************************************************************)
(* SpecRender: convert_prosemirror_to_markdown as a function of its        *)
(* argument                                                                *)
(***************************************************************************)

MaxChildren == 2

\* The lists of up to n values of a set
SeqsUpTo(S, n) == UNION {[1..k -> S] : k \in 0..n}

\* Leaves: text nodes whose text is a text, a number or missing, an object
\* of no type whose content is null, and values that are no objects
Leaves ==
    {TextNode(JStr(<<Ord("h")>>)), TextNode(JNum(5)), TextNode(Missing),
     Node("", NullContent), Atom("str"), Atom("null")}

\* The 'attrs' of a heading: missing, null, or an object whose level is
\* missing, a whole number, a text or null
HeadingAttrs ==
    {NoAttrs, [NoAttrs EXCEPT !.t = "null"]}
    \cup {[t |-> "obj", level |-> l] :
            l \in {Missing, JNum(2), JNum(0), JStr(<<Ord("2")>>), JNull}}

Contents(S) ==
    {NoContent, NullContent, [NoContent EXCEPT !.t = "num"],
     [NoContent EXCEPT !.t = "str"]}
    \cup {ListContent(q) : q \in SeqsUpTo(S, MaxChildren)}

\* Nodes over leaves, and nodes over one such node
Inner ==
    {Node(type, c) : type \in {"paragraph", "bulletList", "listItem", "doc"},
                     c \in Contents(Leaves)}
    \cup {[Node("heading", c) EXCEPT !.attrs = a] :
            c \in Contents(Leaves), a \in HeadingAttrs}

Outer ==
    {Node(type, ListContent(<<n>>)) : type \in {"doc", "bulletList"}, n \in Inner}

\* Text nodes that carry a 'content' as well
TextRoots ==
    {[TextNode(t) EXCEPT !.content = ListContent(<<>>)] :
        t \in {JStr(<<Ord("h")>>), JNum(5), JNull}}

RenderInputs ==
    {Atom(k) : k \in {"null", "str", "num", "list"}}
    \cup Leaves \cup Inner \cup Outer \cup TextRoots

\* One call of convert_prosemirror_to_markdown
Render ==
    /\ render.status = "idle"
    /\ render' = [render EXCEPT
                    !.status = "done",
                    !.result = ConvertProsemirrorToMarkdown(render.input)]
    /\ UNCHANGED <<token, batch, index, record, retry, fetch, needs, syncVars>>

InitRender ==
    /\ token = TokenIdle
    /\ batch = BatchIdle
    /\ index = IndexIdle
    /\ record = RecordIdle
    /\ \E input \in RenderInputs : render = [RenderIdle EXCEPT !.input = input]
    /\ retry = RetryIdle
    /\ fetch = FetchIdle
    /\ needs = NeedsIdle
    /\ SyncIdle

NextRender == Render

SpecRender == InitRender /\ [][NextRender]_vars

(***************************************************************************)
(* Two runs in a row over an output directory left by earlier runs         *)
(***************************************************************************)

\* What the next run is told of the run that ended
Previous(r, file) ==
    [ran |-> TRUE, outcome |-> r.outcome, documents |-> r.documents,
     failed_ids |-> r.failed_ids, synced_ids |-> r.synced_ids,
     saved |-> file = JsonFile(r.sync_state)]

\* The process is stopped between two iterations of the document loop (a
\* signal, or KeyboardInterrupt, which `except Exception` does not catch):
\* nothing after the loop is executed
RunSyncInterrupt ==
    /\ run.pc = "loop"
    /\ run.idx > 1
    /\ run.idx <= Len(run.documents)
    /\ run' = [run EXCEPT !.pc = "done", !.outcome = "interrupted"]
    /\ UNCHANGED <<sideVars, retry, fetch, needs, remote, tree, top_files,
                   state_file, runs, faults>>

\* The next run, told what the run before it did; between the two the
\* service's list may change
NextRunRemembered ==
    /\ run.pc = "done"
    /\ runs < MaxRuns
    /\ run' = [RunIdle EXCEPT !.previous = Previous(run, state_file)]
    /\ remote' \in Evolutions(remote)
    /\ UNCHANGED <<sideVars, retry, fetch, needs, tree, top_files, state_file,
                   runs, faults>>

InitRerun ==
    /\ token = TokenIdle
    /\ batch = BatchIdle
    /\ index = IndexIdle
    /\ record = RecordIdle
    /\ render = RenderIdle
    /\ retry = RetryIdle
    /\ fetch = FetchIdle
    /\ needs = NeedsIdle
    /\ remote \in LoadDocLists
    /\ state_file \in LoadFiles
    /\ tree = [id \in DOMAIN state_file.documents |-> SyncedDir]
    /\ top_files = {}
    /\ run = RunIdle
    /\ runs = 0
    /\ faults = MaxFaults

NextRerun ==
    \/ RunSyncStart
    \/ RunSyncMetadata
    \/ RunSyncDocuments
    \/ RunSyncPlainDocument
    \/ RunSyncFinish
    \/ RunSyncInterrupt
    \/ NextRunRemembered

SpecRerun == InitRerun /\ [][NextRerun]_vars

(***************************************************************************)
(* build_index while run_sync writes the artifact tree                     *)
(***************************************************************************)

\* The directory name of a document id, and the texts of a document's title
\* and updated_at
DirName(id) ==
    CanonicalName(CASE id = 1 -> "1" [] id = 2 -> "2" [] OTHER -> "a")

TitleText(doc) == JStr(Chars(<<"t">>))

IsoText(u) == JStr(Stamp(u.s[1], 10, 0, 0, "Z"))

\* A JSON file of the tree as a reader finds it: a file opened for writing
\* and not yet written to its end does not parse
ShapeOf(state) ==
    CASE state = "absent" -> "absent"
      [] state = "partial" -> "unparseable"
      [] OTHER -> "object"

\* metadata.json as run_sync writes it: every key is there; meeting_date is
\* the start of the first utterance when a transcript came (transcript.json
\* is then written before it), else null; created_at is null for the
\* documents of the model
MetadataJson(dir, doc) ==
    IF dir["metadata.json"] # "ok"
    THEN [NoMeta EXCEPT !.shape = ShapeOf(dir["metadata.json"])]
    ELSE [shape |-> "object",
          document_id |-> JStr(DirName(doc.id)),
          title |-> TitleText(doc),
          meeting_date |-> IF dir["transcript.json"] = "ok"
                           THEN JStr(Stamp(1, 9, 0, 0, "Z")) ELSE JNull,
          created_at |-> JNull,
          updated_at |-> IF doc.updated_at.null THEN JNull
                         ELSE IsoText(doc.updated_at)]

\* document.json: json.dump(doc) of the remote document
DocumentJson(dir, doc) ==
    IF dir["document.json"] # "ok"
    THEN [NoDoc EXCEPT !.shape = ShapeOf(dir["document.json"])]
    ELSE [NoDoc EXCEPT !.shape = "object",
                       !.id = JStr(DirName(doc.id)),
                       !.title = TitleText(doc),
                       !.updated_at = IF doc.updated_at.null THEN Missing
                                      ELSE IsoText(doc.updated_at)]

\* A document directory as build_index finds it
EntryOfDir(dir, doc) ==
    [is_dir |-> TRUE, meta |-> MetadataJson(dir, doc),
     doc |-> DocumentJson(dir, doc),
     files |-> {f \in RunFiles : dir[f] # "absent"}, mtime |-> 1]

\* The processing of a document, statement by statement: last.written are
\* the files written to their end so far
Writing == run.last.result = "writing"

WritingEnv ==
    [QuietEnv EXCEPT !.transcript = run.last.transcript,
                     !.panel = run.last.panel]

\* The file the processing writes next
NextFile ==
    LET steps == Steps(WritingEnv)
        i == CHOOSE j \in DOMAIN steps :
                /\ steps[j] \notin run.last.written
                /\ \A k \in 1..(j - 1) : steps[k] \in run.last.written
    IN  steps[i]

\* The iteration for a document that is skipped
RunSyncSkip ==
    /\ run.pc = "loop"
    /\ run.idx <= Len(run.documents)
    /\ ~Writing
    /\ LET doc == run.documents[run.idx]
       IN  InProgress(doc) \/ ~NeedsSync(doc, run.sync_state)
    /\ Iterate(QuietEnv)

\* doc_folder.mkdir(exist_ok=True) and the transcript fetch, whose result
\* decides which files follow
RunSyncMkdir ==
    /\ run.pc = "loop"
    /\ run.idx <= Len(run.documents)
    /\ ~Writing
    /\ LET doc == run.documents[run.idx]
       IN  /\ ~InProgress(doc)
           /\ NeedsSync(doc, run.sync_state)
           /\ \E tr \in {"data", "none"}, panel \in BOOLEAN :
                 LET e == [QuietEnv EXCEPT !.transcript = tr, !.panel = panel]
                 IN  run' = [run EXCEPT
                               !.last = [Last(run, doc, "writing", e) EXCEPT
                                            !.steps = Range(Steps(e))]]
           /\ tree' = Put(tree, doc.id, DirOf(tree, doc.id))
    /\ UNCHANGED <<sideVars, retry, fetch, needs, remote, top_files,
                   state_file, runs, faults>>

\* open(path, 'w'): the file exists and is empty
RunSyncOpen ==
    /\ run.pc = "loop"
    /\ Writing
    /\ run.last.written # run.last.steps
    /\ tree[run.last.id][NextFile] # "partial"
    /\ tree' = [tree EXCEPT ![run.last.id][NextFile] = "partial"]
    /\ UNCHANGED <<sideVars, retry, fetch, needs, remote, top_files,
                   state_file, run, runs, faults>>

\* json.dump or f.write to the end of the file, and its close
RunSyncWrite ==
    /\ run.pc = "loop"
    /\ Writing
    /\ run.last.written # run.last.steps
    /\ tree[run.last.id][NextFile] = "partial"
    /\ tree' = [tree EXCEPT ![run.last.id][NextFile] = "ok"]
    /\ run' = [run EXCEPT !.last.written = @ \cup {NextFile}]
    /\ UNCHANGED <<sideVars, retry, fetch, needs, remote, top_files,
                   state_file, runs, faults>>

\* The end of the try block, every file written: the entry, the counter and
\* a due checkpoint
RunSyncEntry ==
    /\ run.pc = "loop"
    /\ Writing
    /\ run.last.written = run.last.steps
    /\ LET out == LoopIteration(run, tree, state_file,
                                run.documents[run.idx], WritingEnv)
       IN  /\ run' = out.run
           /\ tree' = out.tree
           /\ state_file' = out.state_file
    /\ UNCHANGED <<sideVars, retry, fetch, needs, remote, top_files, runs,
                   faults>>

\* The entries of the output directory: the document directories and the
\* sync-state file
SharedNames ==
    {DirName(id) : id \in DOMAIN tree}
    \cup (IF state_file.kind # "missing" THEN {StateFileName} ELSE {})

SharedEntry(name) ==
    IF name = StateFileName THEN PlainFile
    ELSE LET id == CHOOSE i \in DOMAIN tree : DirName(i) = name
         IN  EntryOfDir(tree[id], remote[id])

\* build_index starts over the output directory of the running sync: the
\* entries that exist now will be enumerated; index.root keeps every entry
\* as the build found it
BuildSharedStart ==
    /\ index.pc = "idle"
    /\ index' = [index EXCEPT !.pc = "scan",
                              !.builds = @ + 1,
                              !.now = @ + 1,
                              !.pending = SharedNames,
                              !.root = EmptyMap,
                              !.meetings = <<>>,
                              !.moved = FALSE,
                              !.previous = index.file,
                              !.read = NoRead]
    /\ UNCHANGED <<token, batch, record, render, retry, fetch, needs, syncVars>>

\* One iteration of `for entry in it`: os.scandir gives the entries in any
\* order, and may or may not give one created after the scan began
BuildSharedEntry ==
    /\ index.pc = "scan"
    /\ \E name \in SharedNames \ DOMAIN index.root :
          LET entry == SharedEntry(name)
              r == IndexRecord(name, entry, index.env)
              i1 == [index EXCEPT !.pending = @ \ {name},
                                  !.root = Put(@, name, entry)]
          IN  index' =
                IF ~entry.is_dir \/ ~IsUuidFolder(name) THEN i1
                ELSE IF r.raises THEN [i1 EXCEPT !.pc = "aborted"]
                ELSE [i1 EXCEPT !.meetings = Append(@, r.rec)]
    /\ UNCHANGED <<token, batch, record, render, retry, fetch, needs, syncVars>>

\* The lists of the run: concluded or unended documents with an updated_at
SharedDocLists ==
    {q \in RemoteDocLists :
        Len(q) >= 1 /\ \A i \in DOMAIN q : q[i].updated_at = Str(<<1>>)}

InitShared ==
    /\ token = TokenIdle
    /\ batch = BatchIdle
    /\ index = IndexIdle
    /\ record = RecordIdle
    /\ render = RenderIdle
    /\ retry = RetryIdle
    /\ fetch = FetchIdle
    /\ needs = NeedsIdle
    /\ remote \in SharedDocLists
    /\ tree = EmptyMap
    /\ top_files = {}
    /\ state_file = MissingFile
    /\ run = RunIdle
    /\ runs = MaxRuns - 1
    /\ faults = 0

NextShared ==
    \/ RunSyncStart
    \/ RunSyncMetadata
    \/ RunSyncDocuments
    \/ RunSyncSkip
    \/ RunSyncMkdir
    \/ RunSyncOpen
    \/ RunSyncWrite
    \/ RunSyncEntry
    \/ RunSyncFinish
    \/ BuildSharedStart
    \/ BuildSharedEntry
    \/ BuildIndexOpen
    \/ BuildIndexWrite

SpecShared == InitShared /\ [][NextShared]_vars

(***************************************************************************)
(* The query commands show and stats over the index file (cli.py)          *)
(***************************************************************************)

\* m.get(key) of an index record, for a key whose value is a flag: None,
\* which is falsy, when the record has no such key
GetFlag(m, key) == IF key \in DOMAIN m THEN m[key] ELSE FALSE

\* find_meeting(data, query) for a query that is a directory name: the
\* first record whose short_id, id or dir is the query; the prefix loop
\* finds nothing the first loop did not, and no title holds such a name
Matches(m, query) ==
    m.short_id = JStr(query) \/ m.id = JStr(query) \/ m.dir = query

FindMeeting(meetings, query) ==
    LET hits == {i \in DOMAIN meetings : Matches(meetings[i], query)}
    IN  IF hits = {} THEN 0 ELSE CHOOSE i \in hits : \A j \in hits : i <= j

\* `'yes' if match.get('has_resume') else 'no'`
ShowResume(m) == IF GetFlag(m, "has_resume") THEN "yes" ELSE "no"

\* json.dumps(match) with "path" added: the has_resume of the output
ShowJsonHasResume(m) == "has_resume" \in DOMAIN m /\ m["has_resume"]

\* sum(1 for m in meetings if m.get("has_resume"))
WithResume(meetings) ==
    Cardinality({i \in DOMAIN meetings : GetFlag(meetings[i], "has_resume")})

\* `granola show <query>`, as text and as JSON: load_index, find_meeting,
\* the output; nothing is printed when the index file cannot be read or no
\* meeting matches
Show ==
    /\ index.pc \in {"done", "idle"}
    /\ \E query \in DOMAIN index.root :
          LET data == LoadIndex(index.file)
              i == FindMeeting(data.payload.meetings, query)
          IN  /\ data.kind = "complete"
              /\ index' = [index EXCEPT
                    !.read = data,
                    !.query =
                       IF i = 0 THEN [NoQuery EXCEPT !.cmd = "show"]
                       ELSE LET m == data.payload.meetings[i]
                            IN  [cmd |-> "show", found |-> TRUE, shown |-> m,
                                 resume |-> ShowResume(m),
                                 json_has_resume |-> ShowJsonHasResume(m),
                                 with_resume |-> 0,
                                 meetings |-> data.payload.meetings]]
    /\ UNCHANGED <<token, batch, record, render, retry, fetch, needs, syncVars>>

\* `granola stats`
Stats ==
    /\ index.pc \in {"done", "idle"}
    /\ LET data == LoadIndex(index.file)
       IN  /\ data.kind = "complete"
           /\ index' = [index EXCEPT
                 !.read = data,
                 !.query = [NoQuery EXCEPT
                              !.cmd = "stats",
                              !.with_resume = WithResume(data.payload.meetings),
                              !.meetings = data.payload.meetings]]
    /\ UNCHANGED <<token, batch, record, render, retry, fetch, needs, syncVars>>

\* The artifact roots of these runs: up to two meeting directories, each
\* with or without resume.md and transcript.md, and a directory of another
\* name
NotedDir(files) == [Dir(NoMeta, NoDoc) EXCEPT !.files = files]

QueryNames == {CanonicalName("1"), CanonicalName("a"), OtherName}

QueryRoots ==
    UNION {[names -> {NotedDir(fs) : fs \in SUBSET {"resume.md", "transcript.md"}}] :
           names \in SUBSET QueryNames}

InitQuery ==
    /\ token = TokenIdle
    /\ batch = BatchIdle
    /\ \E root \in QueryRoots : index = [IndexIdle EXCEPT !.root = root]
    /\ record = RecordIdle
    /\ render = RenderIdle
    /\ retry = RetryIdle
    /\ fetch = FetchIdle
    /\ needs = NeedsIdle
    /\ SyncIdle

NextQuery ==
    \/ BuildIndexStart
    \/ BuildIndexEntry
    \/ BuildIndexOpen
    \/ BuildIndexWrite
    \/ Show
    \/ Stats

SpecQuery == InitQuery /\ [][NextQuery]_vars

(***************************************************************************)
(* Claims about the Transport Client                                       *)
(***************************************************************************)

RetryEnded == retry.status \in {"returned", "raised"}

LastResp == retry.resps[Len(retry.resps)]

\* C6: for every decorated fetch function, a 401 or 403 answer is terminal:
\* it is the last request of the call, the call raises that error to its
\* caller, and nothing is slept after it.
C6_AuthErrorTerminal ==
    \A i \in DOMAIN retry.resps :
        retry.resps[i] \in AuthErrors =>
            /\ i = Len(retry.resps)
            /\ retry.status = "raised"
            /\ retry.val = retry.resps[i]
            /\ Len(retry.sleeps) = retry.attempt

\* C7: for every decorated fetch function, a failure other than 401/403 is
\* retried until success or until 3 attempts are used: a call that ended
\* after a success returned its data, and a call that ended after such a
\* failure used all 3 attempts and raised the error of the last one. (The
\* transcript's 404, the normal "no transcript" answer, is left out.)
C7_RetriedUntilBudget ==
    RetryEnded =>
        /\ LastResp = "ok" => retry.status = "returned" /\ retry.val = "data"
        /\ (/\ LastResp \notin AuthErrors \cup {"ok"}
            /\ ~(retry.op = "transcript" /\ LastResp = "e404")) =>
                /\ retry.attempt = MaxRetries
                /\ retry.status = "raised"
                /\ retry.val = LastResp

(***************************************************************************)
(* Claims about the paginated fetch                                        *)
(***************************************************************************)

\* C8: against a remote list of n documents served without a failing page,
\* the fetch terminates (it never sends more than n \div limit + 1
\* requests) and returns exactly the n documents in remote order, having
\* requested offsets 0, limit, 2*limit, ... up to the first page that is
\* empty or shorter than limit.
C8_PaginationComplete ==
    LET n == Len(fetch.remote)
        pages == (n \div fetch.limit) + 1
    IN  /\ fetch.status = "running" => Len(fetch.requested) < pages
        /\ \A i \in DOMAIN fetch.requested :
              fetch.requested[i] = (i - 1) * fetch.limit
        /\ (fetch.status = "returned" /\ fetch.failed = -1) =>
              /\ fetch.all_documents = fetch.remote
              /\ Len(fetch.requested) = pages

C8_Witness ==
    /\ fetch.status = "returned"
    /\ fetch.failed = -1
    /\ Len(fetch.requested) = 3
    /\ Len(fetch.remote) = 2 * fetch.limit
    /\ fetch.limit > 1

\* C9: when a page request finally fails, the fetch returns None if the
\* failed page is at offset 0, and otherwise returns, without raising,
\* exactly the documents of the pages before the failing one.
C9_PageFailure ==
    /\ fetch.status = "none" => fetch.failed = 0
    /\ fetch.failed >= 0 =>
          /\ fetch.failed = 0 => fetch.status = "none"
          /\ fetch.failed > 0 =>
                /\ fetch.status = "returned"
                /\ fetch.all_documents = SubSeq(fetch.remote, 1, fetch.failed)
                /\ fetch.requested[Len(fetch.requested)] = fetch.failed

C9_Witness ==
    /\ fetch.failed > 0
    /\ fetch.status = "returned"
    /\ Len(fetch.all_documents) = 2 * fetch.limit
    /\ Len(fetch.remote) > Len(fetch.all_documents)

(***************************************************************************)
(* Claims about needs_sync                                                 *)
(***************************************************************************)

\* a is lexicographically greater than b: they agree up to a place where a
\* has the greater character, or where b ends
LexGreater(a, b) ==
    \E k \in 1..Len(a) :
        /\ \A j \in 1..(k - 1) : j <= Len(b) /\ a[j] = b[j]
        /\ k > Len(b) \/ a[k] > b[k]

\* C3: needs_sync returns true when the document id has no entry in
\* state.documents, true when the document's updated_at is missing (None or
\* empty) or greater than the stored one, and false when both are present
\* and the remote one is equal or smaller.
C3_NeedsSync ==
    needs.status = "returned" =>
        LET doc == needs.doc
            entries == needs.sync_state.documents
            has == doc.id \in DOMAIN entries
            cur == doc.updated_at
            stored == entries[doc.id].updated_at
        IN  /\ ~has => needs.result
            /\ (has /\ Falsy(cur)) => needs.result
            /\ (has /\ ~Falsy(cur) /\ ~Falsy(stored)) =>
                  (needs.result <=> LexGreater(cur.s, stored.s))

C3_Witness ==
    /\ needs.status = "returned"
    /\ needs.doc.id \in DOMAIN needs.sync_state.documents
    /\ needs.doc.updated_at = needs.sync_state.documents[needs.doc.id].updated_at
    /\ Len(needs.doc.updated_at.s) = 2
    /\ ~needs.result

(***************************************************************************)
(* Claims about run_sync                                                   *)
(***************************************************************************)

IdsOf(documents) == [i \in DOMAIN documents |-> documents[i].id]

\* The SyncState the run started from
LoadedState ==
    IF run.full THEN EmptyState ELSE LoadSyncState(run.file0)

\* The entry of id in a documents map, or the empty set when it has none
EntryOf(documents, id) ==
    IF id \in DOMAIN documents THEN {documents[id]} ELSE {}

\* C1: a failure at any step of processing one document never aborts the
\* run: a run that entered the loop ends with every document of the list
\* examined in order and with the end-of-run save done.
C1_FailureNeverAborts ==
    (run.pc = "done" /\ run.documents # <<>>) =>
        /\ run.outcome = "complete"
        /\ run.examined = IdsOf(run.documents)

\* C2: for every examined document whose meeting_end_count is 0 the run
\* creates no directory, writes no file and adds or changes no SyncState
\* entry for its id; such documents are counted as skipped-in-progress, and
\* nothing else is.
C2_InProgressUntouched ==
    LET seen == 1..Len(run.examined)
        unended == {i \in seen : run.documents[i].meeting_end_count = 0}
    IN  /\ \A i \in unended :
              LET id == run.documents[i].id
              IN  /\ id \in DOMAIN tree <=> id \in DOMAIN run.tree0
                  /\ DirOf(tree, id) = DirOf(run.tree0, id)
                  /\ EntryOf(run.sync_state.documents, id)
                        = EntryOf(LoadedState.documents, id)
                  /\ id \notin run.synced_ids
        /\ run.skipped_in_progress = Cardinality(unended)

C2_Witness ==
    /\ run.last.result = "skipped_in_progress"
    /\ run.last.id \notin DOMAIN tree
    /\ run.synced_count = 1
    /\ run.skipped_in_progress = 1

\* C4: in an iteration of the loop the SyncState entry of the document is
\* written only when every write of its processing completed, and then
\* holds the document's remote updated_at and title; an iteration that
\* raised or skipped leaves the whole SyncState as it was; no iteration
\* touches the entry of another document.
C4_EntryAfterPersistence ==
    [][(run.pc = "loop" /\ run.idx <= Len(run.documents)) =>
        LET doc == run.documents[run.idx]
            old == run.sync_state.documents
            new == run'.sync_state.documents
        IN  /\ \A k \in (DOMAIN old \cup DOMAIN new) \ {doc.id} :
                  EntryOf(new, k) = EntryOf(old, k)
            /\ IF run'.last.result = "synced"
               THEN /\ run'.last.written = run'.last.steps
                    /\ {"document.json", "metadata.json"} \subseteq run'.last.steps
                    /\ \A f \in run'.last.steps : tree'[doc.id][f] = "ok"
                    /\ doc.id \in DOMAIN new
                    /\ new[doc.id] = [updated_at |-> doc.updated_at,
                                      title |-> doc.title]
               ELSE new = old]_vars

C4_Witness ==
    /\ run.last.result = "failed"
    /\ run.last.written # {}
    /\ run.last.id \in DOMAIN run.sync_state.documents
    /\ run.last.id \in DOMAIN LoadedState.documents

\* The documents processed in this run whose entry is not in the
\* sync-state file
Unpersisted ==
    {id \in run.synced_ids :
        ~ /\ state_file.kind = "json"
          /\ id \in DOMAIN state_file.documents
          /\ state_file.documents[id] = run.sync_state.documents[id]}

\* C5: at every point of a run, fewer documents than the checkpoint
\* interval have been processed in this run without their entry being in
\* the persisted sync-state file.
C5_UnpersistedBelowInterval ==
    Cardinality(Unpersisted) < CheckpointInterval

\* C10: when the document-list fetch yields None or an empty list, the run
\* ends there: no document is examined, no document directory is created
\* or changed and the sync-state file is as the run found it, for a full
\* sync too.
C10_EmptyFetchFatal ==
    (\/ run.api_response.kind = "none"
     \/ run.api_response.kind = "docs" /\ run.api_response.docs = <<>>) =>
        /\ run.pc = "done"
        /\ run.outcome \in {"fatal_fetch", "fatal_empty"}
        /\ run.examined = <<>>
        /\ run.synced_count = 0
        /\ tree = run.tree0
        /\ state_file = run.file0

C10_Witness ==
    /\ run.pc = "done"
    /\ run.api_response.kind = "none"
    /\ run.full
    /\ run.file0.kind = "json"
    /\ DOMAIN run.file0.documents # {}
    /\ state_file = run.file0

(***************************************************************************)
(* Claims about the start of a run, its metadata and its document list     *)
(***************************************************************************)

\* C11: when the document-list endpoint answers with a response that has no
\* 'docs' key, or has something other than a list there, the run ends with
\* the response-format error (the APIResponseError branch), not as an empty
\* or complete list and not with a generic failure.
C11_MalformedListIsFormatError ==
    run.malformed # "none" =>
        /\ run.pc = "done"
        /\ run.outcome = "fatal_format"

\* C12: if outputDir is not a directory, or no access token is delivered,
\* the run ends before any workspace, folder, document or transcript call
\* and writes nothing into outputDir: no document directory, no top-level
\* file, and the sync-state file as the run found it, for a full sync too.
C12_FatalStartNoEffect ==
    (run.pc # "idle" /\ (~run.dir_ok \/ ~run.token_ok)) =>
        /\ run.pc = "done"
        /\ run.outcome \notin {"none", "complete"}
        /\ run.calls = {}
        /\ run.examined = <<>>
        /\ tree = run.tree0
        /\ top_files = run.top0
        /\ state_file = run.file0

C12_Witness ==
    /\ run.pc = "done"
    /\ run.dir_ok
    /\ ~run.token_ok
    /\ run.full
    /\ run.file0.kind = "json"
    /\ DOMAIN run.file0.documents # {}
    /\ state_file = run.file0

\* C13: a failed workspace fetch or folder-list fetch never ends the run:
\* the document list is fetched all the same, a non-empty list is
\* processed, and the metadata.json written then carries no workspace name
\* (workspace fetch failed) or an empty folder list (folder fetch failed).
C13_MetadataFetchBestEffort ==
    ("workspaces" \in run.calls /\ (~run.workspaces \/ ~run.lists)) =>
        /\ run.pc = "done" =>
              /\ "documents" \in run.calls
              /\ run.outcome # "fatal_meta"
        /\ (run.api_response.kind = "docs" /\ run.api_response.docs # <<>>) =>
              /\ run.pc \in {"loop", "done"}
              /\ run.pc = "done" => run.examined # <<>>
        /\ "metadata.json" \in run.last.written =>
              /\ ~run.workspaces => run.last.metadata.workspace_name = None
              /\ ~run.lists => run.last.metadata.folders = <<>>

C13_Witness ==
    /\ run.pc = "done"
    /\ run.outcome = "complete"
    /\ ~run.workspaces
    /\ run.lists
    /\ run.last.result = "synced"
    /\ run.last.metadata = [workspace_name |-> None, folders |-> <<"F">>]

C15_BadStateFileAsEmpty ==
    (/\ run.pc # "idle"
     /\ ~run.full
     /\ run.file0.kind # "json"
     /\ faults = 1) =>
        /\ run.outcome # "crashed"
        /\ run.pc # "done" \/ run.outcome \in {"complete", "fatal_empty"}
        /\ \A i \in 1..Len(run.examined) :
              run.documents[i].meeting_end_count # 0 =>
                  /\ run.documents[i].id \in run.synced_ids
                  /\ run.documents[i].id \in DOMAIN run.sync_state.documents

(***************************************************************************)
(* Claims about the Credential Store                                       *)
(***************************************************************************)

TokenCalled == token.last.op # "none"

\* C16: after every successful refresh, the stored refresh token is the
\* refresh_token of the response when the response carries one, and the
\* refresh token held before the refresh when it carries none; the .env
\* store holds the same when the save went through.
C16_RefreshTokenRotation ==
    (TokenCalled /\ token.last.ok) =>
        /\ token.tm.refresh_token =
              IF token.last.resp.refresh_token # None
              THEN token.last.resp.refresh_token
              ELSE token.last.before.refresh_token
        /\ token.last.failAt = 0 =>
              token.env.refresh_token = token.tm.refresh_token

C16_Witness ==
    /\ TokenCalled
    /\ token.last.ok
    /\ token.last.resp.refresh_token = None
    /\ token.last.before.refresh_token = "r1"
    /\ token.tm.refresh_token = "r1"
    /\ token.env.refresh_token = "r1"

\* C17: a refresh that does not succeed leaves the TokenState in memory and
\* the .env store as they were; with the refresh token or the client id
\* absent the refresh fails without a request to the token endpoint, and no
\* refresh sends more than one request.
C17_FailedRefreshNoEffect ==
    TokenCalled =>
        /\ token.last.sent <= 1
        /\ ~token.last.ok =>
              /\ token.tm = token.last.before
              /\ token.env = token.last.env_before
        /\ (\/ token.last.before.refresh_token = None
            \/ token.last.before.client_id = None) =>
              /\ ~token.last.ok
              /\ token.last.sent = 0

C17_Witness ==
    /\ token.last.op = "refresh"
    /\ ~token.last.ok
    /\ token.last.sent = 0
    /\ token.last.before.client_id = None
    /\ token.last.before.refresh_token = "r0"
    /\ token.last.before.access_token = "a0"

\* The .env store with the whole TokenState of memory in it
NewStore ==
    [token.last.env_before EXCEPT
        !.refresh_token = token.tm.refresh_token,
        !.access_token = token.tm.access_token,
        !.token_expiry = token.tm.token_expiry]

\* C18: after a successful refresh, whether the save completed, failed or
\* stopped at any step, the .env store holds either the complete new state
\* (access token, refresh token, expiry) or the complete prior state.
C18_SaveTransactional ==
    (TokenCalled /\ token.last.ok) =>
        token.env \in {NewStore, token.last.env_before}

\* C19: every get_valid_token does a refresh first, whatever the cached
\* access token and expiry: with credentials present one request is sent;
\* the token returned is the access token of that refresh's response; when
\* the refresh fails None is returned, a cached unexpired token or not.
C19_AlwaysRefreshFirst ==
    token.last.op = "get" =>
        /\ (/\ token.last.before.refresh_token # None
            /\ token.last.before.client_id # None) => token.last.sent = 1
        /\ token.last.ok <=> (token.last.sent = 1 /\ token.last.resp.kind = "ok")
        /\ token.last.ok => token.last.returned = token.last.resp.access_token
        /\ ~token.last.ok => token.last.returned = None

C19_Witness ==
    /\ token.last.op = "get"
    /\ ~token.last.ok
    /\ token.last.sent = 1
    /\ token.last.returned = None
    /\ token.last.before.access_token = "a1"
    /\ ~IsTokenExpired(token.last.before, token.now)

(***************************************************************************)
(* Claims about the chunked batch fetch                                    *)
(***************************************************************************)

\* The batches of q one after the other, those numbered in skip left out
RECURSIVE Flatten(_, _)
Flatten(q, skip) ==
    IF q = <<>> THEN <<>>
    ELSE Flatten(SubSeq(q, 1, Len(q) - 1), skip)
         \o (IF Len(q) \in skip THEN <<>> ELSE q[Len(q)])

\* C20: the batch fetch asks for the consecutive chunks of batch_size ids,
\* which together cover every id exactly once; a chunk whose fetch fails is
\* skipped, and the call returns the documents of all other chunks in chunk
\* order.
C20_BatchSkipsFailedChunk ==
    LET n == Len(batch.document_ids)
        size == batch.batch_size
    IN  /\ \A k \in DOMAIN batch.chunks :
              batch.chunks[k] = SubSeq(batch.document_ids, (k - 1) * size + 1,
                                       Min(k * size, n))
        /\ batch.all_documents = Flatten(batch.chunks, batch.failed)
        /\ batch.status = "returned" =>
              /\ Flatten(batch.chunks, {}) = batch.document_ids
              /\ Len(batch.chunks) = (n + size - 1) \div size

C20_Witness ==
    /\ batch.status = "returned"
    /\ batch.batch_size = 2
    /\ Len(batch.chunks) = 3
    /\ batch.failed = {2}
    /\ batch.all_documents = <<1, 2, 5>>

(***************************************************************************)
(* Claims about the end-of-run report                                      *)
(***************************************************************************)

\* The counters the end of a run reports: Synced, Skipped (in-progress/
\* unended) and Skipped (unchanged); run_sync keeps no counter of the
\* documents whose processing raised
ReportedCounters(r) ==
    <<r.synced_count, r.skipped_in_progress, r.skipped_unchanged>>

RECURSIVE SumSeq(_)
SumSeq(q) == IF q = <<>> THEN 0 ELSE Head(q) + SumSeq(Tail(q))

\* C21: at the end of a run every document of the fetched list is accounted
\* for by exactly one reported counter: the reported counters add up to the
\* number of documents in the list.
C21_CountersAccountForAll ==
    (run.pc = "done" /\ run.outcome = "complete") =>
        SumSeq(ReportedCounters(run)) = Len(run.documents)

(***************************************************************************)
(* Claims about build_index                                                *)
(***************************************************************************)

\* C22: a reader that reads the index file while build_index replaces a
\* complete previous index, or after build_index was interrupted, gets the
\* complete previous index or the complete new one, never an empty or a
\* truncated text; an interrupted build leaves a complete index file.
C22_IndexReplacedAtomically ==
    Complete(index.previous) =>
        /\ index.read.kind # "none" =>
              /\ index.read.kind = "complete"
              /\ index.read.payload
                    \in {index.previous.payload, index.file.payload}
        /\ index.pc = "interrupted" => Complete(index.file)

\* The payloads that were emitted: those of the completed builds
Emitted == {index.snapshots[i].payload : i \in 1..Len(index.snapshots)}

Dated(m) == m.date_utc # JNull

\* C23: the meetings of every emitted index are in ascending order of
\* (date_utc text, directory name): a record without a date precedes every
\* record with one, dated records ascend by the date_utc text, and records
\* of equal date ascend by directory name, whatever the order of enumeration.
C23_MeetingsSorted ==
    \A p \in Emitted :
        \A i, j \in 1..Len(p.meetings) :
            LET a == p.meetings[i]
                b == p.meetings[j]
            IN  i < j =>
                  /\ Dated(a) => Dated(b)
                  /\ (Dated(a) /\ Dated(b)) =>
                        ~StrLess(b.date_utc.s, a.date_utc.s)
                  /\ a.date_utc = b.date_utc => StrLess(a.dir, b.dir)

C23_Witness ==
    \E i \in 1..Len(index.snapshots) :
        /\ index.snapshots[i].moved
        /\ Len(index.snapshots[i].payload.meetings) = 3
        /\ index.snapshots[i].payload.meetings[2].date_utc
              = index.snapshots[i].payload.meetings[3].date_utc
        /\ Dated(index.snapshots[i].payload.meetings[2])

\* C24: two builds over the unchanged artifact root emit snapshots with the
\* same schema_version, the same root and the same meetings in the same
\* order, whatever the two orders of enumeration.
C24_RebuildIdentical ==
    \A p, q \in Emitted :
        /\ p.schema_version = q.schema_version
        /\ p.root = q.root
        /\ p.meetings = q.meetings

C24_Witness ==
    /\ Len(index.snapshots) = 2
    /\ index.snapshots[1].moved # index.snapshots[2].moved
    /\ Len(index.snapshots[1].payload.meetings) >= 2
    /\ index.snapshots[1].payload.generated_at
          # index.snapshots[2].payload.generated_at

\* The directories of the artifact root that build_index takes as candidates
Candidates ==
    {n \in DOMAIN index.root : index.root[n].is_dir /\ IsUuidFolder(n)}

\* C25: build_index never aborts because of what a candidate directory
\* holds: the build completes and emits a record for every candidate
\* directory.
C25_ContentNeverAborts ==
    /\ index.pc # "aborted"
    /\ index.pc = "done" =>
          \A n \in Candidates :
              \E i \in 1..Len(index.meetings) : index.meetings[i].dir = n

\* The canonical form of an identifier: 8-4-4-4-12 hexadecimal digits
\* (lower-case a-f) with hyphens between the groups
IsCanonical(name) ==
    /\ Len(name) = 36
    /\ \A i \in 1..36 :
          IF i \in {9, 14, 19, 24} THEN name[i] = Ord("-")
          ELSE name[i] \in (48..57) \cup (97..102)

\* C26: every emitted index holds exactly one record for each directory of
\* the artifact root whose name is a canonical identifier, and no other
\* record.
C26_ExactlyCanonicalDirs ==
    \A p \in Emitted :
        /\ {p.meetings[i].dir : i \in 1..Len(p.meetings)}
              = {n \in DOMAIN index.root :
                    index.root[n].is_dir /\ IsCanonical(n)}
        /\ \A i, j \in 1..Len(p.meetings) :
              p.meetings[i].dir = p.meetings[j].dir => i = j

(***************************************************************************)
(* Claims about the index record of one directory                          *)
(***************************************************************************)

Built == record.status = "built" /\ ~record.raises

\* The date candidates of the record's directory in the order of priority:
\* the calendar-event start, metadata meeting_date, created_at, updated_at,
\* document created_at, updated_at; a file that is no object gives none
PriorityCandidates ==
    LET meta == record.entry.meta
        doc == record.entry.doc
    IN  (IF doc.shape = "object" /\ doc.gce.shape = "object"
         THEN <<doc.gce.start.dateTime>> ELSE <<>>)
        \o (IF meta.shape = "object"
            THEN <<meta.meeting_date, meta.created_at, meta.updated_at>>
            ELSE <<>>)
        \o (IF doc.shape = "object"
            THEN <<doc.created_at, doc.updated_at>> ELSE <<>>)

\* The first candidate that parses as a timestamp, as an instant
RECURSIVE FirstParsed(_)
FirstParsed(q) ==
    IF q = <<>> THEN NoDt
    ELSE IF ParseDt(Head(q)).some THEN ParseDt(Head(q))
    ELSE FirstParsed(Tail(q))

\* C27: the date of a record is that of the first candidate, in the order of
\* priority, that parses as a timestamp, a candidate that is missing or
\* does not parse being passed over; the date is absent only when no
\* candidate parses.
C27_DateByPriority ==
    Built => record.rec.date_utc = IsoZ(FirstParsed(PriorityCandidates))

\* The difference of end and start of the calendar event in whole minutes,
\* when both are timestamps of the same kind (zoned or not); 0 otherwise
EventMinutes ==
    LET gce == record.entry.doc.gce
        s == FromIsoFormat(ReplaceZ(gce.start.dateTime.s))
        e == FromIsoFormat(ReplaceZ(gce.end.dateTime.s))
    IN  IF /\ record.entry.doc.shape = "object" /\ gce.shape = "object"
           /\ gce.start.dateTime.t = "str" /\ gce.end.dateTime.t = "str"
           /\ s.ok /\ e.ok /\ s.naive = e.naive
        THEN Minutes((e.wall - e.offset) - (s.wall - s.offset))
        ELSE 0

\* C28: the duration_min of a record is absent or a positive number, and it
\* is the whole-minute difference of the calendar-event end and start when
\* that difference is positive; it is never zero, negative or non-numeric.
C28_DurationPositive ==
    Built =>
        /\ \/ record.rec.duration_min = JNull
           \/ record.rec.duration_min.t = "num" /\ record.rec.duration_min.n > 0
        /\ EventMinutes > 0 => record.rec.duration_min = JNum(EventMinutes)

LocalAbsent ==
    /\ record.rec.date_local = JNull /\ record.rec.year = JNull
    /\ record.rec.month = JNull /\ record.rec.date_short = JNull

LocalPresent ==
    /\ record.rec.date_local # JNull /\ record.rec.year # JNull
    /\ record.rec.month # JNull /\ record.rec.date_short # JNull

DateResolved == FirstTruthy(PriorityCandidates).t = "str"
                /\ ParseDt(FirstTruthy(PriorityCandidates)).some

\* C29 as stated: the local-time fields are all present or all absent; they
\* are all absent when GRANOLA_TIMEZONE is not set or names no zone, and
\* date_utc is then still populated whenever the date resolved.
C29_LocalAbsentWithoutZone ==
    Built =>
        /\ LocalAbsent \/ LocalPresent
        /\ (record.env.tz = NotSet \/ ~ZoneInfoValid(record.env.tz)) =>
              /\ LocalAbsent
              /\ DateResolved => record.rec.date_utc # JNull

\* The zone in effect: GRANOLA_TIMEZONE, or America/New_York when the
\* variable is not set
ZoneInEffect ==
    IF record.env.tz = NotSet THEN "America/New_York" ELSE record.env.tz

\* C29 amended: the local-time fields are all present or all absent; they
\* are all absent when the zone in effect (GRANOLA_TIMEZONE, or
\* America/New_York when it is not set) names no zone or zoneinfo is not
\* available, they are all present when the date resolved and the zone in
\* effect is available, and date_utc is populated whenever the date
\* resolved, whatever the zone.
C29_LocalFieldsTogether ==
    Built =>
        /\ LocalAbsent \/ LocalPresent
        /\ (~record.env.zoneinfo \/ ~ZoneInfoValid(ZoneInEffect)) => LocalAbsent
        /\ (DateResolved /\ record.env.zoneinfo /\ ZoneInfoValid(ZoneInEffect))
              => LocalPresent
        /\ DateResolved => record.rec.date_utc # JNull

C29_Witness ==
    /\ Built
    /\ record.env.tz = NotSet
    /\ DateResolved
    /\ LocalPresent
    /\ record.rec.year = JNum(2023)

(***************************************************************************)
(* Claims about the Document Renderer                                      *)
(***************************************************************************)

\* C30: for every argument the renderer returns a text and does not raise,
\* and it returns the empty text when its argument is absent, is no object
\* or has no content.
C30_RendererTotal ==
    render.status = "done" =>
        /\ ~render.result.raises
        /\ render.result.str
        /\ (render.input.kind # "dict" \/ render.input.content.t = "missing")
              => render.result.s = <<>>

(***************************************************************************)
(* Claims about what a sync run records and what the next run does         *)
(***************************************************************************)

\* C31: a document is recorded as synced only when its transcript fetch
\* ended conclusively (a transcript, or the normal absence of one): the
\* iteration that met a transcript fetch error does not end with the
\* document entered into the SyncState.
C31_SyncedOnlyAfterConclusiveTranscript ==
    (run.last.result = "synced" /\ run.last.id \in DOMAIN run.sync_state.documents)
        => run.last.transcript # "error"

\* C34: every document id with an entry in the persisted SyncState has its
\* own directory holding document.json and metadata.json written to their
\* end, whenever the runs are looked at (also after a failure or an
\* interruption).
C34_EntryHasArtifacts ==
    \A id \in DOMAIN state_file.documents :
        /\ id \in DOMAIN tree
        /\ tree[id]["document.json"] = "ok"
        /\ tree[id]["metadata.json"] = "ok"

\* The optional files a processing writes, by what it met
OptionalFiles(last) ==
    (IF last.transcript = "data" THEN {"transcript.json", "transcript.md"} ELSE {})
    \cup (IF last.panel THEN {"resume.md"} ELSE {})

\* C35: after a document was processed successfully its directory holds
\* transcript.json and transcript.md exactly when that processing fetched a
\* transcript, and resume.md exactly when the document carried a recognized
\* note panel, also when an earlier sync had written those files.
C35_OptionalFilesAgree ==
    run.last.result = "synced" =>
        \A f \in {"transcript.json", "transcript.md", "resume.md"} :
            (tree[run.last.id][f] # "absent") <=> (f \in OptionalFiles(run.last))

(***************************************************************************)
(* Claims about the delays of the retry loop                               *)
(***************************************************************************)

\* The attempts of the call that ended with an exception the wrapper caught
\* and that were followed by another attempt
RetriedAttempts ==
    {i \in DOMAIN retry.caught :
        retry.caught[i] \notin AuthErrors /\ i < MaxRetries}

\* C36: the delay slept after failed attempt a (from 0) is
\* base_delay * backoff_factor^a, 1 then 2 seconds; nothing is slept after
\* the last failed attempt, after a 401/403 or after a success, so a call
\* that used up its 3 attempts slept exactly twice.
C36_BackoffDelays ==
    /\ retry.sleeps = SubSeq(<<1, 2>>, 1, Len(retry.sleeps))
    /\ Len(retry.sleeps) = Cardinality(RetriedAttempts)
    /\ retry.status = "returned" => Len(retry.sleeps) = Len(retry.caught)
    /\ (retry.status = "raised" /\ retry.val \in AuthErrors) =>
          Len(retry.sleeps) = Len(retry.caught) - 1
    /\ (retry.status = "raised" /\ retry.val \notin AuthErrors) =>
          /\ Len(retry.caught) = MaxRetries
          /\ retry.sleeps = <<1, 2>>

\* A call that used up its three attempts and slept 1 and 2 seconds
C36_Witness ==
    /\ retry.status = "raised"
    /\ retry.val \notin AuthErrors
    /\ Len(retry.caught) = MaxRetries
    /\ retry.sleeps = <<1, 2>>

(***************************************************************************)
(* Claims about two runs in a row                                          *)
(***************************************************************************)

\* The iteration just done, in an incremental run that follows another run
AfterPrevious == run.previous.ran /\ ~run.full /\ run.last.result # "none"

\* The document of the iteration just done, and the version of it that the
\* previous run fetched
LastDoc == run.documents[run.idx - 1]

PreviousDoc ==
    CHOOSE d \in Range(run.previous.documents) : d.id = run.last.id

\* The same version, or one with a greater updated_at
SameOrNewer(d, p) ==
    \/ d = p
    \/ /\ ~p.updated_at.null
       /\ ~d.updated_at.null
       /\ StrGreater(d.updated_at.s, p.updated_at.s)

\* C32: a document whose processing raised in one run is processed again by
\* the next incremental run against the same or a newer version of it:
\* needs_sync is true for it, so the iteration does not skip it.
C32_FailedProcessedAgain ==
    (/\ AfterPrevious
     /\ run.last.id \in run.previous.failed_ids
     /\ SameOrNewer(LastDoc, PreviousDoc))
        => run.last.result \in {"synced", "failed", "crashed"}

\* The concluded documents of a list
Concluded(docs) == {d \in Range(docs) : ~InProgress(d)}

\* An incremental run against the list of the run before, every document
\* carrying an updated_at, the run before having run to its end and having
\* processed every concluded document without failure
AfterCleanRun ==
    /\ AfterPrevious
    /\ run.previous.outcome = "complete"
    /\ run.previous.failed_ids = {}
    /\ \A d \in Concluded(run.previous.documents) : d.id \in run.previous.synced_ids
    /\ run.documents = run.previous.documents
    /\ \A d \in Range(run.documents) : ~d.updated_at.null

\* The run processes nothing, writes no artifact file and counts every
\* concluded document as skipped-unchanged
NothingDone ==
    /\ tree = run.tree0
    /\ run.synced_ids = {}
    /\ run.failed_ids = {}
    /\ run.last.result =
          (IF InProgress(LastDoc) THEN "skipped_in_progress" ELSE "skipped_unchanged")
    /\ run.outcome = "complete" =>
          run.skipped_unchanged = Cardinality(Concluded(run.documents))

RecordsOf(name) ==
    {i \in DOMAIN index.meetings : index.meetings[i].dir = name}

\* A directory the build found half written: its metadata.json absent or
\* not written to its end
HalfWritten(entry) == entry.is_dir /\ entry.meta.shape # "object"

\* What the build makes of a directory whose JSON files, where they are not
\* written to their end, are not there at all
AsAbsent(entry) ==
    [entry EXCEPT
        !.meta = IF entry.meta.shape = "object" THEN @ ELSE NoMeta,
        !.doc = IF entry.doc.shape = "object" THEN @ ELSE NoDoc]

BuildTolerates ==
    /\ index.pc # "aborted"
    /\ \A name \in DOMAIN index.root :
          LET entry == index.root[name]
          IN  /\ Cardinality(RecordsOf(name)) = IF entry.is_dir THEN 1 ELSE 0
              /\ HalfWritten(entry) =>
                    \A i \in RecordsOf(name) :
                       LET m == index.meetings[i]
                       IN  /\ m = IndexRecord(name, AsAbsent(entry), index.env).rec
                           /\ m.id = JStr(name)
                           /\ m.title = IF entry.doc.shape = "object"
                                        THEN entry.doc.title ELSE JNull
                           /\ entry.doc.shape # "object" => m.date_utc = JNull

\* C37: build_index beside a running sync never fails; a directory the sync
\* has made but not finished (no file yet, only document.json, a JSON file
\* not written to its end) is indexed as a record with absent metadata;
\* and no step of the build changes the artifact tree, the sync-state file
\* or the other files of the output directory.
C37_BuildBesideSync ==
    /\ []BuildTolerates
    /\ [][index' # index =>
            /\ tree' = tree
            /\ state_file' = state_file
            /\ top_files' = top_files]_vars

\* A build that ended while the sync was writing a document, and that found
\* its directory with document.json complete and metadata.json opened but
\* not written
C37_Witness ==
    /\ index.pc = "done"
    /\ run.pc = "loop"
    /\ Writing
    /\ \E name \in DOMAIN index.root :
          /\ index.root[name].meta.shape = "unparseable"
          /\ index.root[name].doc.shape = "object"
          /\ \E i \in RecordsOf(name) :
                index.meetings[i].title = TitleText(remote[1])

(***************************************************************************)
(* Claims about the query commands                                         *)
(***************************************************************************)

\* C38: the query commands report notes presence as the index builder
\* recorded it: show prints "Resume: yes", and gives has_resume true in its
\* JSON, exactly when the index record of the meeting states that
\* resume.md exists, and stats counts in with_resume exactly the records
\* that state it.
C38_ResumeAsIndexed ==
    /\ (index.query.cmd = "show" /\ index.query.found) =>
          /\ (index.query.resume = "yes") <=> index.query.shown.has_notes
          /\ index.query.json_has_resume <=> index.query.shown.has_notes
    /\ index.query.cmd = "stats" =>
          index.query.with_resume =
             Cardinality({i \in DOMAIN index.query.meetings :
                             index.query.meetings[i].has_notes})

====
